---- MODULE Spec2Model ----
\* ol-grid-sources: grid data sources for OpenLayers.  A model of the numeric
\* helpers (quantize / dequantize / clamp / interpolateGridValue), the
\* factories (createTransformFunc / createCheckExtentFunc /
\* createCoordinateCalculator) and the three tile sources built on
\* BaseGridSource (ColorGrid, ArrowGrid, LabelGrid).
EXTENDS Integers, Sequences, FiniteSets, TLC

VARIABLES
  src,                 \* the Grid Source instance (its fields), or NoSource
  interpolationParam,  \* the instance's reusable InterpolationParams record
  ctx,                 \* the instance's canvas 2D context (ArrowGrid, LabelGrid)
  last                 \* the last call made: operation, arguments, result

vars == <<src, interpolationParam, ctx, last>>

\* ---------------------------------------------------------------------
\* JavaScript numbers.  Every `number` of the sources is an IEEE-754
\* binary64 value; the operators below compute +, -, *, / with the
\* round-to-nearest-even of binary64 (53-bit significand).  A finite value
\* is sign * m * 2^e with m an odd natural (or zero) held as a sequence of
\* 15-bit limbs, least significant first, so that the 53-bit significands
\* and their 106-bit products fit TLC's integers.  Exponent overflow and
\* subnormals are out of range for the magnitudes used here.
\* ---------------------------------------------------------------------

\* one limb holds LimbBits bits
LimbBits == 15

LimbBase == 2^LimbBits

\* significand width of binary64
SigBits == 53

Limb(a, i) == IF i >= 1 /\ i <= Len(a) THEN a[i] ELSE 0

Max2(a, b) == IF a >= b THEN a ELSE b

Min2(a, b) == IF a <= b THEN a ELSE b

\* acc folded through Op over lo, lo+1, ..., hi in that order (the loops of
\* the sources); the range is halved so that the evaluation stays shallow
RECURSIVE FoldRange(_, _, _, _)
FoldRange(Op(_, _), acc, lo, hi) ==
  IF lo > hi THEN acc
  ELSE IF lo = hi THEN Op(acc, lo)
  ELSE LET mid  == (lo + hi) \div 2
           left == FoldRange(Op, acc, lo, mid)
       IN  IF left = left THEN FoldRange(Op, left, mid + 1, hi) ELSE left

RECURSIVE BStrip(_)
BStrip(a) == IF a = <<>> THEN a
             ELSE IF a[Len(a)] = 0 THEN BStrip(SubSeq(a, 1, Len(a) - 1)) ELSE a

\* the limbs of a native natural n
RECURSIVE BNat(_)
BNat(n) == IF n = 0 THEN <<>> ELSE <<n % LimbBase>> \o BNat(n \div LimbBase)

\* the native value of a short limb sequence (at most two limbs)
BVal(a) == Limb(a, 1) + LimbBase * Limb(a, 2)

\* a + b: limb i with the carry c
BAdd(a, b) ==
  LET RECURSIVE AddFrom(_, _)
      AddFrom(i, c) ==
        IF i > Len(a) /\ i > Len(b) THEN (IF c = 0 THEN <<>> ELSE <<c>>)
        ELSE LET t == Limb(a, i) + Limb(b, i) + c
             IN  <<t % LimbBase>> \o AddFrom(i + 1, t \div LimbBase)
  IN  AddFrom(1, 0)

\* a - b for a >= b: limb i with the borrow c
BSub(a, b) ==
  LET RECURSIVE SubFrom(_, _)
      SubFrom(i, c) ==
        IF i > Len(a) THEN <<>>
        ELSE LET t == Limb(a, i) - Limb(b, i) - c
             IN  IF t < 0 THEN <<t + LimbBase>> \o SubFrom(i + 1, 1)
                 ELSE <<t>> \o SubFrom(i + 1, 0)
  IN  BStrip(SubFrom(1, 0))

\* -1, 0, 1 as a < b, a = b, a > b (both stripped)
BCmp(a, b) ==
  LET RECURSIVE CmpFrom(_)
      CmpFrom(i) ==
        IF i = 0 THEN 0
        ELSE IF a[i] < b[i] THEN -1
        ELSE IF a[i] > b[i] THEN 1
        ELSE CmpFrom(i - 1)
  IN  IF Len(a) < Len(b) THEN -1
      ELSE IF Len(a) > Len(b) THEN 1
      ELSE CmpFrom(Len(a))

\* a * k for one limb k
BMulSmall(a, k) ==
  LET RECURSIVE MulFrom(_, _)
      MulFrom(i, c) ==
        IF i > Len(a) THEN (IF c = 0 THEN <<>> ELSE <<c>>)
        ELSE LET t == a[i] * k + c
             IN  <<t % LimbBase>> \o MulFrom(i + 1, t \div LimbBase)
  IN  IF k = 0 THEN <<>> ELSE MulFrom(1, 0)

Zeros(n) == [i \in 1..n |-> 0]

BMul(a, b) ==
  LET RECURSIVE MulFrom(_)
      MulFrom(i) ==
        IF i > Len(b) THEN <<>>
        ELSE BAdd(IF b[i] = 0 THEN <<>> ELSE Zeros(i - 1) \o BMulSmall(a, b[i]),
                  MulFrom(i + 1))
  IN  IF Len(a) <= 1 /\ Len(b) <= 1 THEN BNat(Limb(a, 1) * Limb(b, 1))
      ELSE BStrip(MulFrom(1))

\* a * 2^n
BShl(a, n) ==
  IF a = <<>> THEN a
  ELSE Zeros(n \div LimbBits) \o BMulSmall(a, 2^(n % LimbBits))

\* floor(a / 2^n)
BShr(a, n) ==
  LET d == n \div LimbBits
      r == n % LimbBits
      p == 2^r
      q == 2^(LimbBits - r)
  IN  IF d >= Len(a) THEN <<>>
      ELSE BStrip([i \in 1..(Len(a) - d) |->
                     (a[i + d] \div p) + (Limb(a, i + d + 1) % p) * q])

\* bit k of a (bit 0 is the least significant)
BBit(a, k) == (Limb(a, (k \div LimbBits) + 1) \div 2^(k % LimbBits)) % 2

\* number of significant bits of a
BBitLen(a) ==
  IF a = <<>> THEN 0
  ELSE LimbBits * (Len(a) - 1)
       + (CHOOSE k \in 1..LimbBits : 2^(k - 1) <= a[Len(a)] /\ a[Len(a)] < 2^k)

\* number of trailing zero bits of a # 0
BTz(a) ==
  LET i == CHOOSE j \in 1..Len(a) : a[j] # 0 /\ \A h \in 1..(j - 1) : a[h] = 0
  IN  LimbBits * (i - 1)
      + (CHOOSE k \in 0..(LimbBits - 1) : a[i] % 2^k = 0 /\ a[i] % 2^(k + 1) # 0)

\* --------------------------------------------------------------- values

NaN == [k |-> "nan", s |-> 1, m |-> <<>>, e |-> 0]

Inf(s) == [k |-> "inf", s |-> s, m |-> <<>>, e |-> 0]

Zero == [k |-> "num", s |-> 1, m |-> <<>>, e |-> 0]

IsNaN(x) == x.k = "nan"

IsZero(x) == x.k = "num" /\ x.m = <<>>

\* the exact value s * m * 2^e, m not necessarily odd
Exact(s, m, e) == [s |-> s, m |-> m, e |-> e]

\* the exact value r written with its magnitude odd
Canon(r) ==
  IF r.m = <<>> THEN Zero
  ELSE [k |-> "num", s |-> r.s, m |-> BShr(r.m, BTz(r.m)), e |-> r.e + BTz(r.m)]

\* the exact value r.s * r.m * 2^r.e (plus a nonzero remainder below the last
\* bit when st) rounded to the 53-bit significand, ties to even
Round(r, st) ==
  LET sh == BBitLen(r.m) - SigBits
      Up(q) == BBit(r.m, sh - 1) = 1 /\ (st \/ BTz(r.m) < sh - 1 \/ BBit(q, 0) = 1)
      Nearest(q) == IF Up(q) THEN BAdd(q, <<1>>) ELSE q
  IN  Canon(IF sh <= 0 THEN r ELSE Exact(r.s, Nearest(BShr(r.m, sh)), r.e + sh))

\* the number of a native integer
Num(n) == Canon(Exact(IF n < 0 THEN -1 ELSE 1, BNat(IF n < 0 THEN -n ELSE n), 0))

\* n / 2^k for native n
Dyadic(n, k) == Canon(Exact(IF n < 0 THEN -1 ELSE 1, BNat(IF n < 0 THEN -n ELSE n), -k))

NumNeg(x) == IF x.k = "nan" \/ IsZero(x) THEN x ELSE [x EXCEPT !.s = -x.s]

\* the exact sum of the magnitudes a and b carrying the signs sa and sb
AddSigned(sa, a, sb, b, e) ==
  IF sa = sb THEN Exact(sa, BAdd(a, b), e)
  ELSE IF BCmp(a, b) = 0 THEN Exact(1, <<>>, 0)
  ELSE IF BCmp(a, b) > 0 THEN Exact(sa, BSub(a, b), e)
  ELSE Exact(sb, BSub(b, a), e)

\* exact sum of two finite values
AddExact(x, y) ==
  IF x.m = <<>> THEN Exact(y.s, y.m, y.e)
  ELSE IF y.m = <<>> THEN Exact(x.s, x.m, x.e)
  ELSE AddSigned(x.s, BShl(x.m, x.e - Min2(x.e, y.e)),
                 y.s, BShl(y.m, y.e - Min2(x.e, y.e)), Min2(x.e, y.e))

NumAdd(x, y) ==
  IF x.k = "nan" \/ y.k = "nan" THEN NaN
  ELSE IF x.k = "inf" THEN (IF y.k = "inf" /\ y.s # x.s THEN NaN ELSE x)
  ELSE IF y.k = "inf" THEN y
  ELSE Round(AddExact(x, y), FALSE)

NumSub(x, y) == NumAdd(x, NumNeg(y))

NumMul(x, y) ==
  IF x.k = "nan" \/ y.k = "nan" THEN NaN
  ELSE IF x.k = "inf" \/ y.k = "inf"
       THEN (IF IsZero(x) \/ IsZero(y) THEN NaN ELSE Inf(x.s * y.s))
  ELSE IF x.m = <<>> \/ y.m = <<>> THEN Zero
  ELSE Round(Exact(x.s * y.s, BMul(x.m, y.m), x.e + y.e), FALSE)

\* one step of the long division of n * 2^t by d: bit k of n * 2^t is brought
\* down into the remainder qr[2] and the next quotient bit is put into qr[1]
BDivStep(n, t, d, qr, k) ==
  LET bit == IF k >= t THEN BBit(n, k - t) ELSE 0
      Step(q2, r2) == IF BCmp(r2, d) >= 0 THEN <<BAdd(q2, <<1>>), BSub(r2, d)>> ELSE <<q2, r2>>
  IN  Step(BShl(qr[1], 1), BAdd(BShl(qr[2], 1), IF bit = 1 THEN <<1>> ELSE <<>>))

\* quotient and remainder of (n * 2^t) / d, bits top down to 0
BDiv(n, t, d, top) ==
  FoldRange(LAMBDA qr, i : BDivStep(n, t, d, qr, top - i), <<<<>>, <<>>>>, 0, top)

\* the quotient qr[1] with remainder qr[2], rounded
RoundQuotient(s, qr, e) == Round(Exact(s, qr[1], e), qr[2] # <<>>)

NumDiv(x, y) ==
  IF x.k = "nan" \/ y.k = "nan" THEN NaN
  ELSE IF x.k = "inf" THEN (IF y.k = "inf" THEN NaN ELSE Inf(x.s * y.s))
  ELSE IF y.k = "inf" THEN Zero
  ELSE IF y.m = <<>> THEN (IF x.m = <<>> THEN NaN ELSE Inf(x.s * y.s))
  ELSE IF x.m = <<>> THEN Zero
  ELSE IF y.m = <<1>> THEN [x EXCEPT !.s = x.s * y.s, !.e = x.e - y.e]
  ELSE IF Len(x.m) <= 2 /\ Len(y.m) <= 2 /\ BVal(x.m) % BVal(y.m) = 0
       THEN Canon(Exact(x.s * y.s, BNat(BVal(x.m) \div BVal(y.m)), x.e - y.e))
  ELSE LET t == SigBits + 2 + BBitLen(y.m) - BBitLen(x.m)
       IN  RoundQuotient(x.s * y.s, BDiv(x.m, t, y.m, BBitLen(x.m) + t - 1), x.e - y.e - t)

\* -1, 0, 1 as x < y, x = y, x > y; 2 when either is NaN (every comparison
\* with NaN is false)
NumCmp(x, y) ==
  IF x.k = "nan" \/ y.k = "nan" THEN 2
  ELSE IF x.k = "inf" THEN (IF y.k = "inf" /\ y.s = x.s THEN 0 ELSE x.s)
  ELSE IF y.k = "inf" THEN -y.s
  ELSE LET Sign(r) == IF r.m = <<>> THEN 0 ELSE r.s IN Sign(AddExact(x, NumNeg(y)))

NumLt(x, y) == NumCmp(x, y) = -1

NumLe(x, y) == NumCmp(x, y) \in {-1, 0}

NumGe(x, y) == NumCmp(x, y) \in {0, 1}

NumGt(x, y) == NumCmp(x, y) = 1

\* Math.floor of a finite value, as a native integer
Floor(x) ==
  IF x.m = <<>> THEN 0
  ELSE IF x.e >= 0 THEN x.s * BVal(BShl(x.m, x.e))
  ELSE LET n == BVal(BShr(x.m, -x.e))
       IN  IF x.s = 1 THEN n ELSE -(n + 1)

\* Math.ceil of a finite value, as a native integer
Ceil(x) ==
  IF x.m = <<>> THEN 0
  ELSE IF x.e >= 0 THEN x.s * BVal(BShl(x.m, x.e))
  ELSE LET n == BVal(BShr(x.m, -x.e))
       IN  IF x.s = 1 THEN n + 1 ELSE -n

\* Math.round of a finite value: floor(x + 0.5) on the exact sum
MathRound(x) ==
  Floor(Canon(AddExact(x, Dyadic(1, 1))))

\* ---------------------------------------------------------------------
\* lib/utils: clamp, quantize, dequantize, interpolateGridValue
\* ---------------------------------------------------------------------

\* the element of a one-element set.  Only({F(v) : v \in {e}}) is F(e) with
\* the value of e taken once and named v, as a `const v = e` of the sources
Only(S) == CHOOSE v \in S : TRUE

\* an optional JavaScript value: None for undefined / null, Some(v) otherwise
None == <<>>

Some(v) == <<v>>

One == Num(1)

Byte255 == Num(255)

\* the value taken round the interval [min, max] instead of held to it
clampWrapped(value, min, max) == min + ((value - min) % (max - min + 1))

\* Math.max(min, Math.min(max, value)) on integers
clamp(value, min, max) == Max2(min, Min2(max, value))

\* quantize with the byte scale taken as 256 instead of 255
quantize256(value, range) ==
  NumDiv(NumMul(NumSub(value, range[1]), Num(256)), NumSub(range[2], range[1]))

\* ((value - range[0]) * 255) / (range[1] - range[0])
quantize(value, range) ==
  NumDiv(NumMul(NumSub(value, range[1]), Byte255), NumSub(range[2], range[1]))

\* dequantize dividing by the span of the range, as quantize does
dequantizeBySpan(byte, range) ==
  NumAdd(NumDiv(NumMul(byte, Byte255), NumSub(range[2], range[1])), range[1])

\* the number an operand of - is converted to.  An array, [k |-> "array",
\* v |-> its elements], goes through its string, the elements joined by
\* commas: "" is 0, one number is that number, and "a,b" is no numeric literal
ToNumber(x) ==
  IF x.k = "array"
  THEN (CASE Len(x.v) = 0 -> Zero
          [] Len(x.v) = 1 -> x.v[1]
          [] Len(x.v) > 1 -> NaN)
  ELSE IF x.k = "string" THEN NaN
  ELSE x

\* a + b for a number a: the sum, or, b being an array, the string of a
\* followed by the elements of b joined by commas
Plus(a, b) ==
  IF b.k = "array" THEN [k |-> "string", number |-> a, joined |-> b.v]
  ELSE NumAdd(a, b)

\* (byte * (range[1] - range[0])) / 255 + range[0]
dequantize(byte, range) ==
  Plus(NumDiv(NumMul(byte, NumSub(ToNumber(range[2]), ToNumber(range[1]))), Byte255),
       range[1])

\* grid[i] read as 0 outside the array
GridAtZero(grid, i) == IF i >= 0 /\ i < Len(grid) THEN Num(grid[i + 1]) ELSE Zero

\* grid[i] of a typed array: the element, or undefined outside 0..length-1
\* (undefined becomes NaN in the arithmetic that follows)
GridAt(grid, i) == IF i >= 0 /\ i < Len(grid) THEN Num(grid[i + 1]) ELSE NaN

interpolateGridValue(grid, params) ==
  Only({
    Only({ NumAdd(NumMul(NumSub(One, params.ry), r1), NumMul(params.ry, r2))
           : r1 \in {NumAdd(NumMul(NumSub(One, params.rx), q11), NumMul(params.rx, q21))},
             r2 \in {NumAdd(NumMul(NumSub(One, params.rx), q12), NumMul(params.rx, q22))} })
    : q11 \in {GridAt(grid, params.i11)},
      q21 \in {GridAt(grid, params.i21)},
      q12 \in {GridAt(grid, params.i12)},
      q22 \in {GridAt(grid, params.i22)} })

\* ---------------------------------------------------------------------
\* lib/factories
\* ---------------------------------------------------------------------

\* createTransformFunc(sourceProjection, dataProjection)(x, y).  Equal
\* projection codes give the identity pairing; the other two branches call
\* OpenLayers' toLonLat / transform, which are not part of this repository,
\* and the sources of this model are all built with equal codes.
createTransformFunc(sourceProjectionCode, dataProjectionCode, x, y) ==
  CASE sourceProjectionCode = dataProjectionCode -> <<x, y>>

\* the extent check with the two longitude comparisons of a wrapping extent
\* joined by "and"
createCheckExtentFuncAnd(extent, lon, lat) ==
  NumGe(lon, extent[1]) /\ NumLe(lon, extent[3])
  /\ NumGe(lat, extent[2]) /\ NumLe(lat, extent[4])

\* createCheckExtentFunc(extent)(lon, lat)
createCheckExtentFunc(extent, lon, lat) ==
  LET minX == extent[1]
      minY == extent[2]
      maxX == extent[3]
      maxY == extent[4]
      crossesDateLine == NumLt(maxX, minX)
  IN  IF crossesDateLine
      THEN NumGe(lat, minY) /\ NumLe(lat, maxY)
           /\ (NumGe(lon, minX) \/ NumLe(lon, maxX))
      ELSE NumGe(lon, minX) /\ NumLe(lon, maxX)
           /\ NumGe(lat, minY) /\ NumLe(lat, maxY)

NumAbs(x) == IF x.k = "nan" THEN x ELSE [x EXCEPT !.s = 1]

\* a || 1 on numbers: 1 when a is 0 or NaN
OrOne(a) == IF IsNaN(a) \/ IsZero(a) THEN One ELSE a

\* the span of the extent in x (dx) of createCoordinateCalculator
ExtentDx(extent) ==
  IF NumLt(extent[3], extent[1])
  THEN NumAdd(NumSub(Num(180), extent[1]), NumAdd(Num(180), extent[3]))
  ELSE NumAbs(NumSub(extent[3], extent[1]))

ExtentDy(extent) == NumAbs(NumSub(extent[4], extent[2]))

\* partX = dx / width || 1
PartX(width, extent) == OrOne(NumDiv(ExtentDx(extent), Num(width)))

\* partY = dy / height || 1
PartY(height, extent) == OrOne(NumDiv(ExtentDy(extent), Num(height)))

\* xCell taken from the longitude as given, without the shift by 360
XCellUnshifted(width, extent, lon) ==
  NumDiv(NumSub(lon, extent[1]), PartX(width, extent))

\* xCell of createCoordinateCalculator(width, height, extent)(lon, lat)
XCell(width, extent, lon) ==
  Only({ NumDiv(NumSub(x, extent[1]), PartX(width, extent))
         : x \in {IF NumLt(extent[3], extent[1]) /\ NumLe(lon, extent[3])
                  THEN NumAdd(lon, Num(360)) ELSE lon} })

\* yCell of createCoordinateCalculator(width, height, extent)(lon, lat)
YCell(height, extent, lat) == NumDiv(NumSub(lat, extent[2]), PartY(height, extent))

\* the row index taken bottom-to-top
RowOfUnflipped(height, yBase) == yBase

\* height - 1 - yBase: the buffer row, top-to-bottom, of latitude step yBase
RowOf(height, yBase) == height - 1 - yBase

\* the six values createCoordinateCalculator(width, height, extent)(lon, lat)
\* computes, before they are stored
createCoordinateCalculator(width, height, extent, lon, lat) ==
  Only({
    Only({
      LET maxX == width - 1
          maxY == height - 1
          x0 == clamp(xBase, 0, maxX)
          x1 == clamp(xBase + 1, 0, maxX)
          y0 == clamp(RowOf(height, yBaseCeil), 0, maxY)
          y1 == clamp(RowOf(height, yBaseFloor), 0, maxY)
      IN  [i11 |-> x0 + y1 * width,
           i12 |-> x0 + y0 * width,
           i21 |-> x1 + y1 * width,
           i22 |-> x1 + y0 * width,
           rx  |-> NumSub(xCell, Num(xBase)),
           ry  |-> NumSub(yCell, Num(yBaseFloor))]
      : xBase \in {Floor(xCell)},
        yBaseFloor \in {Floor(yCell)},
        yBaseCeil \in {Ceil(yCell)} })
    : xCell \in {XCell(width, extent, lon)},
      yCell \in {YCell(height, extent, lat)} })

\* the writes to `out` without the last one, out.ry = ry
WriteOutButRy(out, p) ==
  [out EXCEPT !.i11 = p.i11, !.i12 = p.i12, !.i21 = p.i21, !.i22 = p.i22,
              !.rx = p.rx]

\* `if (out) { out.i11 = i11; ...; return out }`: the six fields of the given
\* record are overwritten in place
WriteOut(out, p) ==
  [out EXCEPT !.i11 = p.i11, !.i12 = p.i12, !.i21 = p.i21, !.i22 = p.i22,
              !.rx = p.rx, !.ry = p.ry]

\* ---------------------------------------------------------------------
\* sources/BaseGridSource: the constructor
\* ---------------------------------------------------------------------

NoSource == [kind |-> "none"]

NoCanvas == [kind |-> "none"]

\* the divisor tables the subclasses pass to super(opts, divisors)
ColorDivisors == <<256, 128, 64, 32, 16>>

ArrowDivisors == <<16, 8, 4, 2, 1>>

LabelDivisors == <<16, 8, 4, 2, 1>>

\* a ?? b for an optional a
Nullish(a, b) == IF a = None THEN b ELSE a[1]

\* a || b for an optional number a: b when a is undefined or 0
OrElseNum(a, b) == IF a = None \/ a = Some(0) THEN b ELSE a[1]

\* a || b for an optional string a: b when a is undefined or empty
OrElseStr(a, b) == IF a = None \/ a = Some("") THEN b ELSE a[1]

\* an option of several shapes that is not given (tileSize, extremes, style)
NotGiven == [t |-> "undefined"]

\* a size given as a number: tileSize: n, fontSize: n
SizeNumber(n) == [t |-> "number", v |-> n]

\* tileSize: [w, h]
SizeOf(w, h) == [t |-> "size", v |-> <<w, h>>]

\* the `extremes` option: one [min, max] pair, or an array of pairs
PairExtremes(lo, hi) == [t |-> "pair", v |-> <<lo, hi>>]

MultiExtremes(pairs) == [t |-> "pairs", v |-> pairs]

\* the table index taken round the table instead of clamped
DivisorIdxWrapped(length, spacingFactor) == (Nullish(spacingFactor, 1) - 1) % length

\* Math.max(0, Math.min(divisors.length - 1, (options.spacingFactor ?? 1) - 1))
DivisorIdx(length, spacingFactor) ==
  Max2(0, Min2(length - 1, Nullish(spacingFactor, 1) - 1))

\* divisors[divisorIdx]
SelectDivisor(divisors, spacingFactor) ==
  divisors[DivisorIdx(Len(divisors), spacingFactor) + 1]

\* Math.round(tileSize / divisor)
GridStep(tileSize, divisor) == MathRound(NumDiv(Num(tileSize), Num(divisor)))

\* this.interpolationParam = { i11: 0, i12: 0, i21: 0, i22: 0, rx: 0, ry: 0 }
InitialParam == [i11 |-> 0, i12 |-> 0, i21 |-> 0, i22 |-> 0, rx |-> Zero, ry |-> Zero]

\* tileSize = 256 and `Array.isArray(tileSize) ? tileSize : [tileSize, tileSize]`
TileSize(tileSize) ==
  CASE tileSize.t = "undefined" -> <<256, 256>>
    [] tileSize.t = "number" -> <<tileSize.v, tileSize.v>>
    [] tileSize.t = "size" -> tileSize.v

\* the fields BaseGridSource's constructor sets from the options; no option
\* is inspected or rejected on the way.  The tile grid is always given (the
\* default one is built by OpenLayers' createXYZ).
BaseGridSource(options, divisors) ==
  LET tW == TileSize(options.tileSize)[1]
      tH == TileSize(options.tileSize)[2]
      divisor == SelectDivisor(divisors, options.spacingFactor)
  IN Only({
      [data |-> options.data,
       extremes |-> options.extremes,
       dataWidth |-> options.dataWidth,
       dataHeight |-> options.dataHeight,
       dataExtent |-> options.dataExtent,
       tileGrid |-> options.tileGrid,
       projection |-> Nullish(options.projection, "EPSG:3857"),
       dataProjection |-> Nullish(options.dataProjection, "EPSG:4326"),
       tileW |-> tW,
       tileH |-> tH,
       gridStepX |-> gridStepX,
       gridStepY |-> gridStepY,
       halfStepX |-> Dyadic(gridStepX, 1),
       halfStepY |-> Dyadic(gridStepY, 1)]
      : gridStepX \in {GridStep(tW, divisor)},
        gridStepY \in {GridStep(tH, divisor)} })

\* record r extended with the fields of record x
Extend(r, x) ==
  [f \in DOMAIN r \cup DOMAIN x |-> IF f \in DOMAIN x THEN x[f] ELSE r[f]]

\* new ColorGrid(options)
ColorGrid(options) ==
  Extend(BaseGridSource([options EXCEPT !.spacingFactor = Some(Nullish(options.spacingFactor, 2))],
                        ColorDivisors),
         [kind |-> "color"])

\* ---------------------------------------------------------------------
\* the tile loop shared by the three loadTile methods
\* ---------------------------------------------------------------------

\* the bbox with the rows counted upward from the origin
TileBBoxRowsUp(s, z, x, y) ==
  LET origin == s.tileGrid.origin
      resolution == s.tileGrid.resolutions[z + 1]
  IN  Only({ <<NumAdd(origin[1], NumMul(tw, Num(x))),
               NumAdd(origin[2], NumMul(th, Num(y))),
               NumAdd(origin[1], NumMul(tw, Num(x + 1))),
               NumAdd(origin[2], NumMul(th, Num(y + 1)))>>
             : tw \in {NumMul(Num(s.tileW), resolution)},
               th \in {NumMul(Num(s.tileH), resolution)} })

\* bbox of tile (z, x, y) from tileGrid.getOrigin(z), tileGrid.getResolution(z)
TileBBox(s, z, x, y) ==
  LET origin == s.tileGrid.origin
      resolution == s.tileGrid.resolutions[z + 1]
  IN  Only({ <<NumAdd(origin[1], NumMul(tw, Num(x))),
               NumAdd(origin[2], NumMul(th, Num(-y - 1))),
               NumAdd(origin[1], NumMul(tw, Num(x + 1))),
               NumAdd(origin[2], NumMul(th, Num(-y)))>>
             : tw \in {NumMul(Num(s.tileW), resolution)},
               th \in {NumMul(Num(s.tileH), resolution)} })

\* the data-space point of the sample at pixel (i, j)
SamplePoint(s, bbox, i, j) ==
  Only({ createTransformFunc(s.projection, s.dataProjection,
           NumAdd(bbox[1], NumMul(stepWidth, NumAdd(Num(i), s.halfStepX))),
           NumSub(bbox[4], NumMul(stepHeight, NumAdd(Num(j), s.halfStepY))))
         : stepWidth \in {NumDiv(NumSub(bbox[3], bbox[1]), Num(s.tileW))},
           stepHeight \in {NumDiv(NumSub(bbox[4], bbox[2]), Num(s.tileH))} })

\* how many times `for (v = 0; v < size; v += step)` runs its body (step >= 1)
LoopCount(size, step) == IF size <= 0 THEN 0 ELSE (size + step - 1) \div step

\* `for (i = 0; i < tileW; i += gridStepX)` or the loop over j inside it never
\* ends: the step is 0
Diverges(s) ==
  \/ s.tileW > 0 /\ s.gridStepX < 1
  \/ s.tileW > 0 /\ s.tileH > 0 /\ s.gridStepY < 1

\* acc folded through Body(acc, i, j) over the sample points in loop order:
\* i outermost, j innermost
ForEachSample(s, Body(_, _, _), acc) ==
  LET nX == LoopCount(s.tileW, s.gridStepX)
      nY == LoopCount(s.tileH, s.gridStepY)
  IN  FoldRange(LAMBDA a, n : Body(a, (n \div nY) * s.gridStepX, (n % nY) * s.gridStepY),
                acc, 0, nX * nY - 1)

\* ---------------------------------------------------------------------
\* sources/ColorGrid
\* ---------------------------------------------------------------------

\* buffer[idx] = value on a Uint8Array: ToUint8 of the value, and a write
\* outside the array is dropped
StoreByte(buffer, idx, value) ==
  IF idx \in DOMAIN buffer THEN [buffer EXCEPT ![idx] = value % 256] ELSE buffer

\* const idx = ((j + k) * tileW + (i + l)) * 4
PixelIndex(s, i, j, k, l) == ((j + k) * s.tileW + (i + l)) * 4

\* the body of the two fill loops for pixel (j + k, i + l)
FillPixel(s, buffer, i, j, k, l, value) ==
  LET idx == PixelIndex(s, i, j, k, l)
  IN  StoreByte(StoreByte(StoreByte(StoreByte(buffer, idx, value),
                                    idx + 1, value), idx + 2, value), idx + 3, 255)

\* the fill loops: k over gridStepY rows, l over gridStepX columns
FillBlock(s, buffer, i, j, value) ==
  FoldRange(LAMBDA b, n : FillPixel(s, b, i, j, n \div s.gridStepX, n % s.gridStepX, value),
            buffer, 0, s.gridStepX * s.gridStepY - 1)

\* the body of ColorGrid.loadTile's sample loop; acc holds the pixel buffer
\* and the shared interpolationParam record
ColorSample(s, bbox, acc, i, j) ==
  Only({
    IF ~createCheckExtentFunc(s.dataExtent, point[1], point[2]) THEN acc
    ELSE Only({
      Only({ IF IsNaN(raw) THEN [acc EXCEPT !.param = params]
             ELSE [buffer |-> FillBlock(s, acc.buffer, i, j, MathRound(raw)),
                   param |-> params]
             : raw \in {interpolateGridValue(s.data, params)} })
      : params \in {WriteOut(acc.param,
                      createCoordinateCalculator(s.dataWidth, s.dataHeight,
                                                 s.dataExtent, point[1], point[2]))} })
    : point \in {SamplePoint(s, bbox, i, j)} })

\* ColorGrid.loadTile(z, x, y): the returned buffer and the interpolationParam
\* record as the call leaves it
ColorLoadTile(s, param, z, x, y) ==
  Only({ ForEachSample(s, LAMBDA a, i, j : ColorSample(s, bbox, a, i, j),
                       [buffer |-> [p \in 0..(s.tileW * s.tileH * 4 - 1) |-> 0],
                        param |-> param])
         : bbox \in {TileBBox(s, z, x, y)} })

\* a point query that answers null outside the data extent
ColorGetDataInExtent(s, param, coordinate) ==
  LET point == createTransformFunc(s.projection, s.dataProjection,
                                   coordinate[1], coordinate[2])
  IN  IF ~createCheckExtentFunc(s.dataExtent, point[1], point[2])
      THEN [ret |-> None, param |-> param]
      ELSE Only({
        Only({ [ret |-> IF IsNaN(raw) THEN None
                        ELSE IF s.extremes.t # "undefined"
                             THEN Some(dequantize(raw, s.extremes.v))
                        ELSE Some(raw),
                param |-> params]
               : raw \in {interpolateGridValue(s.data, params)} })
        : params \in {WriteOut(param,
                        createCoordinateCalculator(s.dataWidth, s.dataHeight,
                                                   s.dataExtent, point[1], point[2]))} })

\* ColorGrid.getDataAtCoordinate(coordinate): null, or the value
ColorGetData(s, param, coordinate) ==
  LET point == createTransformFunc(s.projection, s.dataProjection,
                                   coordinate[1], coordinate[2])
  IN  Only({
        Only({ [ret |-> IF IsNaN(raw) THEN None
                        ELSE IF s.extremes.t # "undefined"
                             THEN Some(dequantize(raw, s.extremes.v))
                        ELSE Some(raw),
                param |-> params]
               : raw \in {interpolateGridValue(s.data, params)} })
        : params \in {WriteOut(param,
                        createCoordinateCalculator(s.dataWidth, s.dataHeight,
                                                   s.dataExtent, point[1], point[2]))} })

\* ---------------------------------------------------------------------
\* the 2D drawing context of the canvas the glyph and label sources own.
\* A context is a record of its pen attributes, its current transform (the
\* list of translate / rotate calls applied since the identity), its save
\* stack, its current path and the list of draw operations its bitmap has
\* received since it was last cleared.
\* ---------------------------------------------------------------------

Identity == <<>>

\* document.createElement("canvas").getContext("2d"): the attributes a new
\* context has
NewContext ==
  [kind |-> "canvas",
   strokeStyle |-> "#000000", fillStyle |-> "#000000", lineWidth |-> 1,
   lineCap |-> "butt", lineJoin |-> "miter",
   shadowColor |-> "rgba(0, 0, 0, 0)", shadowBlur |-> 0,
   shadowOffsetX |-> 0, shadowOffsetY |-> 0,
   font |-> <<"normal", "normal", [t |-> "px", v |-> 10], "sans-serif">>,
   textAlign |-> "start", textBaseline |-> "alphabetic",
   transform |-> Identity, stack |-> <<>>, path |-> <<>>, drawn |-> <<>>]

\* the attributes save() pushes and restore() pops
Saved(c) ==
  [strokeStyle |-> c.strokeStyle, fillStyle |-> c.fillStyle, lineWidth |-> c.lineWidth,
   lineCap |-> c.lineCap, lineJoin |-> c.lineJoin,
   shadowColor |-> c.shadowColor, shadowBlur |-> c.shadowBlur,
   shadowOffsetX |-> c.shadowOffsetX, shadowOffsetY |-> c.shadowOffsetY,
   font |-> c.font, textAlign |-> c.textAlign, textBaseline |-> c.textBaseline,
   transform |-> c.transform]

\* a clearRect that leaves the bitmap as it is
ClearRectKeep(c) == c

\* ctx.clearRect(0, 0, w, h) on a canvas of w x h pixels: under the identity
\* transform the whole bitmap is cleared
ClearRect(c) ==
  IF c.transform = Identity THEN [c EXCEPT !.drawn = <<>>]
  ELSE [c EXCEPT !.drawn = Append(c.drawn, [op |-> "clear", transform |-> c.transform])]

Save(c) == [c EXCEPT !.stack = Append(c.stack, Saved(c))]

\* a restore that pops the stack and the pen and leaves the transform
RestoreKeepTransform(c) ==
  IF c.stack = <<>> THEN c
  ELSE [Extend([c EXCEPT !.stack = SubSeq(c.stack, 1, Len(c.stack) - 1)],
               c.stack[Len(c.stack)])
          EXCEPT !.transform = c.transform]

\* ctx.restore(): nothing happens on an empty stack
Restore(c) ==
  IF c.stack = <<>> THEN c
  ELSE Extend([c EXCEPT !.stack = SubSeq(c.stack, 1, Len(c.stack) - 1)],
              c.stack[Len(c.stack)])

Translate(c, x, y) ==
  [c EXCEPT !.transform = Append(c.transform, [op |-> "translate", x |-> x, y |-> y])]

\* ctx.rotate(angle): nothing happens when the angle is not finite
Rotate(c, angle) ==
  IF angle.k = "nan" THEN c
  ELSE [c EXCEPT !.transform = Append(c.transform, [op |-> "rotate", angle |-> angle])]

BeginPath(c) == [c EXCEPT !.path = <<>>]

\* moveTo / lineTo: the point enters the path under the current transform
MoveTo(c, x, y) ==
  [c EXCEPT !.path = Append(c.path, [op |-> "M", x |-> x, y |-> y,
                                     transform |-> c.transform])]

LineTo(c, x, y) ==
  [c EXCEPT !.path = Append(c.path, [op |-> "L", x |-> x, y |-> y,
                                     transform |-> c.transform])]

\* ctx.stroke(): the path is drawn with the current pen
Stroke(c) ==
  [c EXCEPT !.drawn = Append(c.drawn,
     [op |-> "stroke", path |-> c.path, transform |-> c.transform,
      strokeStyle |-> c.strokeStyle, lineWidth |-> c.lineWidth,
      lineCap |-> c.lineCap, lineJoin |-> c.lineJoin,
      shadowColor |-> c.shadowColor, shadowBlur |-> c.shadowBlur,
      shadowOffsetX |-> c.shadowOffsetX, shadowOffsetY |-> c.shadowOffsetY])]

\* ctx.strokeText(label, x, y)
StrokeText(c, label, x, y) ==
  [c EXCEPT !.drawn = Append(c.drawn,
     [op |-> "strokeText", text |-> label, x |-> x, y |-> y,
      transform |-> c.transform, font |-> c.font,
      textAlign |-> c.textAlign, textBaseline |-> c.textBaseline,
      strokeStyle |-> c.strokeStyle, lineWidth |-> c.lineWidth,
      lineCap |-> c.lineCap, lineJoin |-> c.lineJoin,
      shadowColor |-> c.shadowColor, shadowBlur |-> c.shadowBlur,
      shadowOffsetX |-> c.shadowOffsetX, shadowOffsetY |-> c.shadowOffsetY])]

\* ctx.fillText(label, x, y)
FillText(c, label, x, y) ==
  [c EXCEPT !.drawn = Append(c.drawn,
     [op |-> "fillText", text |-> label, x |-> x, y |-> y,
      transform |-> c.transform, font |-> c.font,
      textAlign |-> c.textAlign, textBaseline |-> c.textBaseline,
      fillStyle |-> c.fillStyle,
      shadowColor |-> c.shadowColor, shadowBlur |-> c.shadowBlur,
      shadowOffsetX |-> c.shadowOffsetX, shadowOffsetY |-> c.shadowOffsetY])]

\* new Uint8Array(ctx.getImageData(0, 0, tileW, tileH).data.buffer): the
\* pixels of the bitmap, which are what the draw operations received since
\* the last clear made them
GetImageData(c, w, h) == [kind |-> "image", width |-> w, height |-> h, drawn |-> c.drawn]

\* ---------------------------------------------------------------------
\* sources/ArrowGrid
\* ---------------------------------------------------------------------

\* the `style` option: a style object, or a style function
StyleObject(s) == [t |-> "object", v |-> s]

StyleFunction(f) == [t |-> "function", f |-> f]

\* an ArrowStyle object with no property set
EmptyArrowStyle ==
  [color |-> None, length |-> None, headSize |-> None, strokeWidth |-> None,
   shadowColor |-> None, shadowBlur |-> None,
   shadowOffsetX |-> None, shadowOffsetY |-> None]

\* const defaultStyle = { color: "#000000", length: 30, ... }
ArrowDefaultStyle ==
  [color |-> "#000000", length |-> 30, headSize |-> 10, strokeWidth |-> 2,
   shadowColor |-> "transparent", shadowBlur |-> 0,
   shadowOffsetX |-> 0, shadowOffsetY |-> 0]

\* { ...defaultStyle }
ArrowDefaultCopy ==
  [f \in DOMAIN ArrowDefaultStyle |-> Some(ArrowDefaultStyle[f])]

\* new ArrowGrid(options): the instance
ArrowGrid(options) ==
  Extend(BaseGridSource([options EXCEPT !.spacingFactor = Some(Nullish(options.spacingFactor, 3))],
                        ArrowDivisors),
         [kind |-> "arrow",
          speedThreshold |-> IF options.speedThreshold = None
                                \/ IsNaN(options.speedThreshold[1])
                                \/ IsZero(options.speedThreshold[1])
                             THEN Zero ELSE options.speedThreshold[1],
          style |-> IF options.style.t = "undefined"
                    THEN StyleObject(ArrowDefaultCopy) ELSE options.style])

\* new ArrowGrid(options): the drawing context the constructor leaves
ArrowContext ==
  [NewContext EXCEPT !.lineCap = "round", !.lineJoin = "round"]

\* Math.hypot(u, v) where one of the two components is zero or not a number
Hypot(u, v) ==
  CASE IsNaN(ToNumber(u)) \/ IsNaN(ToNumber(v)) -> NaN
    [] ~IsNaN(ToNumber(u)) /\ IsZero(v) -> NumAbs(u)
    [] ~IsNaN(ToNumber(v)) /\ IsZero(u) -> NumAbs(v)

\* Math.atan2(y, x): NaN when an argument is, and otherwise the angle, kept
\* as the direction (x, y) it is the angle of
Atan2(y, x) ==
  IF IsNaN(y) \/ IsNaN(ToNumber(x)) THEN NaN ELSE [k |-> "angle", y |-> y, x |-> x]

\* `extremes` as ArrowGrid hands it to dequantize: the [min, max] pair, or,
\* for an array of pairs, the array whose two elements are arrays
ArrowRange(extremes) ==
  IF extremes.t = "pairs"
  THEN [i \in 1..Len(extremes.v) |-> [k |-> "array", v |-> extremes.v[i]]]
  ELSE extremes.v

\* the style functions the sources of this model are configured with
ArrowStyleFn(f, arrow) ==
  CASE f \in {"bySpeed", "requery"} ->
         [EmptyArrowStyle EXCEPT
            !.color = IF NumLt(arrow.speed, Num(20)) THEN Some("blue") ELSE Some("red"),
            !.strokeWidth = IF NumLt(arrow.speed, Num(20)) THEN None ELSE Some(3),
            !.length = Some(4)]
    [] f = "plain" -> EmptyArrowStyle

\* the six pen attributes and the two glyph sizes taken from a style object
ApplyArrowStyle(acc, s) ==
  [acc EXCEPT
     !.ctx = [acc.ctx EXCEPT
        !.strokeStyle = OrElseStr(s.color, ArrowDefaultStyle.color),
        !.lineWidth = OrElseNum(s.strokeWidth, ArrowDefaultStyle.strokeWidth),
        !.shadowColor = OrElseStr(s.shadowColor, ArrowDefaultStyle.shadowColor),
        !.shadowBlur = OrElseNum(s.shadowBlur, ArrowDefaultStyle.shadowBlur),
        !.shadowOffsetX = OrElseNum(s.shadowOffsetX, ArrowDefaultStyle.shadowOffsetX),
        !.shadowOffsetY = OrElseNum(s.shadowOffsetY, ArrowDefaultStyle.shadowOffsetY)],
     !.length = OrElseNum(s.length, ArrowDefaultStyle.length),
     !.headSize = OrElseNum(s.headSize, ArrowDefaultStyle.headSize)]

\* save, translate, rotate, the arrow's path, stroke, restore
DrawArrow(c, x, y, angle, length, headSize) ==
  Only({
    Only({
      LET c1 == Rotate(Translate(Save(c), x, y), angle)
          c2 == LineTo(MoveTo(BeginPath(c1), NumNeg(halfLen), Zero), halfLen, Zero)
          c3 == LineTo(LineTo(MoveTo(c2, back, NumNeg(halfHead)), halfLen, Zero),
                       back, halfHead)
      IN  Restore(Stroke(c3))
      : back \in {NumSub(halfLen, Num(headSize))} })
    : halfLen \in {NumDiv(Num(length), Num(2))},
      halfHead \in {NumDiv(Num(headSize), Num(2))} })

\* ArrowGrid.getVectorAtCoordinate(coordinate): null, or { u, v, speed, angle }
ArrowGetVector(s, param, coordinate) ==
  LET point == createTransformFunc(s.projection, s.dataProjection,
                                   coordinate[1], coordinate[2])
  IN  Only({
        Only({ [ret |-> IF IsNaN(uRaw) \/ IsNaN(vRaw) THEN None
                        ELSE Some(Only({
                               [u |-> u, v |-> v, speed |-> Hypot(u, v),
                                angle |-> Atan2(NumNeg(ToNumber(v)), u)]
                               : u \in {dequantize(uRaw, ArrowRange(s.extremes))},
                                 v \in {dequantize(vRaw, ArrowRange(s.extremes))} })),
                param |-> params]
               : uRaw \in {interpolateGridValue(s.data[1], params)},
                 vRaw \in {interpolateGridValue(s.data[2], params)} })
        : params \in {WriteOut(param,
                        createCoordinateCalculator(s.dataWidth, s.dataHeight,
                                                   s.dataExtent, point[1], point[2]))} })

\* the coordinate the re-entrant callbacks query
RequeryCoordinate == <<Num(12), Num(2)>>

\* style({ u, v, speed, angle }): the style object returned, and the
\* interpolationParam record as the call leaves it. The function "requery"
\* calls this.getVectorAtCoordinate on the instance that is rendering
CallArrowStyle(s, param, arrow) ==
  [style |-> ArrowStyleFn(s.style.f, arrow),
   param |-> IF s.style.f = "requery"
             THEN ArrowGetVector(s, param, RequeryCoordinate).param
             ELSE param]

\* speed <= speedThreshold
AtOrBelowThreshold(speed, speedThreshold) == NumLe(speed, speedThreshold)

\* speed < speedThreshold
BelowThreshold(speed, speedThreshold) == NumLt(speed, speedThreshold)

\* the sample loop's body with the glyph's angle taken from the scratch
\* record after the style function has returned
ArrowSampleStale(s, bbox, acc, i, j) ==
  Only({
    IF ~createCheckExtentFunc(s.dataExtent, point[1], point[2]) THEN acc
    ELSE Only({
      Only({
        IF IsNaN(uRaw) \/ IsNaN(vRaw) THEN [acc EXCEPT !.param = params]
        ELSE Only({
          LET speed == Hypot(u, v)
              angle == Atan2(NumNeg(ToNumber(v)), u)
              written == [acc EXCEPT !.param = params]
          IN  IF BelowThreshold(speed, s.speedThreshold) THEN written
              ELSE Only({
                [styled EXCEPT !.ctx =
                   DrawArrow(styled.ctx, NumAdd(Num(i), s.halfStepX),
                             NumAdd(Num(j), s.halfStepY),
                             Atan2(NumNeg(ToNumber(dequantize(
                                     interpolateGridValue(s.data[2], styled.param),
                                     ArrowRange(s.extremes)))),
                                   dequantize(interpolateGridValue(s.data[1], styled.param),
                                              ArrowRange(s.extremes))),
                             styled.length, styled.headSize)]
                : styled \in {IF s.style.t = "function"
                              THEN Only({
                                ApplyArrowStyle([written EXCEPT !.param = called.param],
                                                called.style)
                                : called \in {CallArrowStyle(s, params,
                                       [u |-> u, v |-> v, speed |-> speed, angle |-> angle])} })
                              ELSE written} })
          : u \in {dequantize(uRaw, ArrowRange(s.extremes))},
            v \in {dequantize(vRaw, ArrowRange(s.extremes))} })
        : uRaw \in {interpolateGridValue(s.data[1], params)},
          vRaw \in {interpolateGridValue(s.data[2], params)} })
      : params \in {WriteOut(acc.param,
                      createCoordinateCalculator(s.dataWidth, s.dataHeight,
                                                 s.dataExtent, point[1], point[2]))} })
    : point \in {SamplePoint(s, bbox, i, j)} })

\* the body of ArrowGrid.loadTile's sample loop; acc holds the context, the
\* shared interpolationParam record and the two glyph sizes
ArrowSample(s, bbox, acc, i, j) ==
  Only({
    IF ~createCheckExtentFunc(s.dataExtent, point[1], point[2]) THEN acc
    ELSE Only({
      Only({
        IF IsNaN(uRaw) \/ IsNaN(vRaw) THEN [acc EXCEPT !.param = params]
        ELSE Only({
          LET speed == Hypot(u, v)
              angle == Atan2(NumNeg(ToNumber(v)), u)
              written == [acc EXCEPT !.param = params]
          IN  IF BelowThreshold(speed, s.speedThreshold) THEN written
              ELSE Only({
                [styled EXCEPT !.ctx =
                   DrawArrow(styled.ctx, NumAdd(Num(i), s.halfStepX),
                             NumAdd(Num(j), s.halfStepY), angle,
                             styled.length, styled.headSize)]
                : styled \in {IF s.style.t = "function"
                              THEN Only({
                                ApplyArrowStyle([written EXCEPT !.param = called.param],
                                                called.style)
                                : called \in {CallArrowStyle(s, params,
                                       [u |-> u, v |-> v, speed |-> speed, angle |-> angle])} })
                              ELSE written} })
          : u \in {dequantize(uRaw, ArrowRange(s.extremes))},
            v \in {dequantize(vRaw, ArrowRange(s.extremes))} })
        : uRaw \in {interpolateGridValue(s.data[1], params)},
          vRaw \in {interpolateGridValue(s.data[2], params)} })
      : params \in {WriteOut(acc.param,
                      createCoordinateCalculator(s.dataWidth, s.dataHeight,
                                                 s.dataExtent, point[1], point[2]))} })
    : point \in {SamplePoint(s, bbox, i, j)} })

\* ArrowGrid.loadTile before its loop: the surface cleared, the pen and the
\* glyph sizes set from a style object
ArrowStart(s, param, c) ==
  LET start == [ctx |-> ClearRect(c), param |-> param,
                length |-> ArrowDefaultStyle.length,
                headSize |-> ArrowDefaultStyle.headSize]
  IN  IF s.style.t # "function" THEN ApplyArrowStyle(start, s.style.v) ELSE start

\* ArrowGrid.loadTile(z, x, y): the returned image, the context and the
\* interpolationParam record as the call leaves them
ArrowLoadTile(s, param, c, z, x, y) ==
  LET shared == ArrowStart(s, param, c)
  IN  Only({ [ret |-> GetImageData(done.ctx, s.tileW, s.tileH),
              ctx |-> done.ctx, param |-> done.param]
             : done \in {Only({ ForEachSample(s, LAMBDA a, i, j : ArrowSample(s, bbox, a, i, j),
                                             shared)
                                : bbox \in {TileBBox(s, z, x, y)} })} })

\* ---------------------------------------------------------------------
\* sources/LabelGrid
\* ---------------------------------------------------------------------

\* a LabelStyle object with no property set
EmptyLabelStyle ==
  [fontSize |-> None, fontFamily |-> None, fontWeight |-> None, fontStyle |-> None,
   fill |-> None, stroke |-> None, strokeWidth |-> None,
   shadowColor |-> None, shadowBlur |-> None,
   shadowOffsetX |-> None, shadowOffsetY |-> None,
   textAlign |-> None, textBaseline |-> None]

\* a font size given as a string "<n>px"
SizePx(n) == [t |-> "px", v |-> n]

\* window.getComputedStyle(document.body): the page's body style
ComputedBody ==
  [fontSize |-> SizePx(16), fontFamily |-> "serif", fontWeight |-> "400",
   fontStyle |-> "normal", color |-> "rgb(0, 0, 0)"]

\* BASE_STYLE of the constructor
LabelBaseStyle ==
  [fontSize |-> Some(ComputedBody.fontSize), fontFamily |-> Some(ComputedBody.fontFamily),
   fontWeight |-> Some(ComputedBody.fontWeight), fontStyle |-> Some(ComputedBody.fontStyle),
   fill |-> Some(ComputedBody.color), stroke |-> None, strokeWidth |-> Some(3),
   shadowColor |-> Some("transparent"), shadowBlur |-> Some(0),
   shadowOffsetX |-> Some(0), shadowOffsetY |-> Some(0),
   textAlign |-> Some("center"), textBaseline |-> Some("middle")]

\* { ...a, ...b }: the properties b sets override those of a
Spread(a, b) == [f \in DOMAIN a |-> IF b[f] # None THEN b[f] ELSE a[f]]

\* a || b for an optional font size a
OrElseSize(a, b) ==
  IF a = None \/ a = Some(SizeNumber(0)) THEN b ELSE a[1]

\* buildFont(s): `${fStyle} ${fWeight} ${sizeStr} ${fFamily}`, a number of
\* pixels n written as "<n>px"
BuildFont(s) ==
  LET fStyle == OrElseStr(s.fontStyle, LabelBaseStyle.fontStyle[1])
      fWeight == OrElseStr(s.fontWeight, LabelBaseStyle.fontWeight[1])
      fSize == OrElseSize(s.fontSize, LabelBaseStyle.fontSize[1])
      fFamily == OrElseStr(s.fontFamily, LabelBaseStyle.fontFamily[1])
      sizeStr == IF fSize.t = "number" THEN SizePx(fSize.v) ELSE fSize
  IN  <<fStyle, fWeight, sizeStr, fFamily>>

\* new LabelGrid(options): the instance
LabelGrid(options) ==
  Extend(BaseGridSource([options EXCEPT !.spacingFactor = Some(Nullish(options.spacingFactor, 4))],
                        LabelDivisors),
         [kind |-> "label",
          textFormatter |-> options.text,
          style |-> CASE options.style.t = "function" -> options.style
                      [] options.style.t = "object" ->
                           StyleObject(Spread(LabelBaseStyle, options.style.v))
                      [] options.style.t = "undefined" -> StyleObject(LabelBaseStyle)])

\* new LabelGrid(options): the drawing context the constructor leaves, set
\* from this.style
LabelContext(style) ==
  IF style.t = "function" THEN NewContext
  ELSE LET s == style.v
       IN  [NewContext EXCEPT
                !.textAlign = s.textAlign[1],
                !.textBaseline = s.textBaseline[1],
                !.lineWidth = s.strokeWidth[1],
                !.strokeStyle = IF s.stroke = None \/ s.stroke = Some("")
                                THEN NewContext.strokeStyle ELSE s.stroke[1],
                !.shadowColor = s.shadowColor[1],
                !.shadowBlur = s.shadowBlur[1],
                !.shadowOffsetX = s.shadowOffsetX[1],
                !.shadowOffsetY = s.shadowOffsetY[1],
                !.fillStyle = s.fill[1],
                !.font = BuildFont(s)]

\* n.toFixed(1): the sign and the tenths of the decimal nearest to n, the
\* larger one on a tie
ToFixed1(n) ==
  [neg |-> NumLt(n, Zero), tenths |-> MathRound(NumMul(NumAbs(n), Num(10)))]

\* the text formatters the sources of this model are configured with; a
\* label is the list of its parts
TextFn(f, values) ==
  CASE f = "positive" ->
         IF NumGt(values[1], Zero) THEN Some(<<ToFixed1(values[1])>>) ELSE None
    [] f \in {"first", "requery"} -> Some(<<ToFixed1(values[1])>>)

\* textFormatter(...values): the configured formatter, or
\* (...v) => v.map((n) => n.toFixed(1)).join(" ")
FormatText(s, values) ==
  IF s.textFormatter = None
  THEN Some([k \in 1..Len(values) |-> ToFixed1(values[k])])
  ELSE TextFn(s.textFormatter[1], values)

\* the style functions the sources of this model are configured with
LabelStyleFn(f, values) ==
  CASE f \in {"bySign", "requery"} ->
         [EmptyLabelStyle EXCEPT
            !.fill = IF NumLt(values[1], Zero) THEN Some("blue") ELSE Some("red"),
            !.stroke = IF NumLt(values[1], Zero) THEN Some("white") ELSE None,
            !.fontSize = IF NumLt(values[1], Zero) THEN Some(SizeNumber(12)) ELSE None]
    [] f = "plain" -> EmptyLabelStyle

\* the first range taken for every channel
LabelRangeFirst(extremes, k) ==
  IF extremes.t = "pairs" THEN extremes.v[1] ELSE extremes.v

\* isMultiExtremes ? ranges[k] : ranges[0], k counted from 0
LabelRange(extremes, k) ==
  IF extremes.t = "pairs" THEN extremes.v[k + 1] ELSE extremes.v

\* the loop over the channels: the values, or the fact that one is missing
LabelValues(s, params) ==
  Only({ [hasNoData |-> \E k \in 1..Len(s.data) : IsNaN(raws[k]),
          values |-> [k \in 1..Len(s.data) |->
                        dequantize(raws[k], LabelRange(s.extremes, k - 1))]]
         : raws \in {[k \in 1..Len(s.data) |->
                        interpolateGridValue(s.data[k], params)]} })

\* the pen set from the result of a style function, and hasStroke
ApplyLabelStyle(c, s) ==
  LET fontString == BuildFont(s)
      base == LabelBaseStyle
      c1 == IF fontString # c.font THEN [c EXCEPT !.font = fontString] ELSE c
      c2 == [c1 EXCEPT
               !.fillStyle = OrElseStr(s.fill, base.fill[1]),
               !.textAlign = OrElseStr(s.textAlign, base.textAlign[1]),
               !.textBaseline = OrElseStr(s.textBaseline, base.textBaseline[1]),
               !.shadowColor = OrElseStr(s.shadowColor, base.shadowColor[1]),
               !.shadowBlur = OrElseNum(s.shadowBlur, base.shadowBlur[1]),
               !.shadowOffsetX = OrElseNum(s.shadowOffsetX, base.shadowOffsetX[1]),
               !.shadowOffsetY = OrElseNum(s.shadowOffsetY, base.shadowOffsetY[1])]
      hasStroke == ~(s.stroke = None \/ s.stroke = Some(""))
  IN  [hasStroke |-> hasStroke,
       ctx |-> IF hasStroke
               THEN [c2 EXCEPT !.strokeStyle = s.stroke[1],
                               !.lineWidth = OrElseNum(s.strokeWidth, base.strokeWidth[1])]
               ELSE c2]

\* LabelGrid.getDataAtCoordinate(coordinate): one entry per channel
LabelGetData(s, param, coordinate) ==
  LET point == createTransformFunc(s.projection, s.dataProjection,
                                   coordinate[1], coordinate[2])
  IN  Only({ [ret |-> [k \in 1..Len(s.data) |->
                         Only({ IF IsNaN(raw) THEN NaN
                                ELSE dequantize(raw, LabelRange(s.extremes, k - 1))
                                : raw \in {interpolateGridValue(s.data[k], params)} })],
              param |-> params]
             : params \in {WriteOut(param,
                             createCoordinateCalculator(s.dataWidth, s.dataHeight,
                                                        s.dataExtent, point[1], point[2]))} })

\* textFormatter(...values): the label returned, and the interpolationParam
\* record as the call leaves it. The formatter "requery" calls
\* this.getDataAtCoordinate on the instance that is rendering
CallTextFormatter(s, param, values) ==
  [label |-> FormatText(s, values),
   param |-> IF s.textFormatter = Some("requery")
             THEN LabelGetData(s, param, RequeryCoordinate).param
             ELSE param]

\* style(...values): the style object returned, and the interpolationParam
\* record as the call leaves it
CallLabelStyle(s, param, values) ==
  [style |-> LabelStyleFn(s.style.f, values),
   param |-> IF s.style.f = "requery"
             THEN LabelGetData(s, param, RequeryCoordinate).param
             ELSE param]

\* the body of LabelGrid.loadTile's sample loop; acc holds the context and
\* the shared interpolationParam record
LabelSample(s, bbox, acc, i, j) ==
  Only({
    IF ~createCheckExtentFunc(s.dataExtent, point[1], point[2]) THEN acc
    ELSE Only({
      Only({
        IF channels.hasNoData THEN [acc EXCEPT !.param = params]
        ELSE Only({
          IF texted.label = None \/ texted.label = Some(<<>>)
          THEN [acc EXCEPT !.param = texted.param]
          ELSE Only({
            [acc EXCEPT
               !.param = styled.param,
               !.ctx = FillText(IF styled.hasStroke
                                THEN StrokeText(styled.ctx, texted.label[1], px, py)
                                ELSE styled.ctx,
                                texted.label[1], px, py)]
            : styled \in {IF s.style.t = "function"
                          THEN Only({
                            Extend(ApplyLabelStyle(acc.ctx, called.style),
                                   [param |-> called.param])
                            : called \in {CallLabelStyle(s, texted.param,
                                                         channels.values)} })
                          ELSE [hasStroke |-> ~(s.style.v.stroke = None
                                                \/ s.style.v.stroke = Some("")),
                                ctx |-> acc.ctx, param |-> texted.param]},
              px \in {NumAdd(Num(i), s.halfStepX)},
              py \in {NumAdd(Num(j), s.halfStepY)} })
          : texted \in {CallTextFormatter(s, params, channels.values)} })
        : channels \in {LabelValues(s, params)} })
      : params \in {WriteOut(acc.param,
                      createCoordinateCalculator(s.dataWidth, s.dataHeight,
                                                 s.dataExtent, point[1], point[2]))} })
    : point \in {SamplePoint(s, bbox, i, j)} })

\* LabelGrid.loadTile(z, x, y): the returned image, the context and the
\* interpolationParam record as the call leaves them
LabelLoadTile(s, param, c, z, x, y) ==
  Only({ [ret |-> GetImageData(done.ctx, s.tileW, s.tileH),
          ctx |-> done.ctx, param |-> done.param]
         : done \in {Only({ ForEachSample(s, LAMBDA a, i, j : LabelSample(s, bbox, a, i, j),
                                         [ctx |-> ClearRect(c), param |-> param])
                            : bbox \in {TileBBox(s, z, x, y)} })} })

\* =====================================================================
\* Specification SpecQuant: quantize and dequantize applied to inputs drawn
\* from bounded sets, the second call fed with the result of the first
\* =====================================================================

\* generic value ranges [lo, hi] with -MaxRange <= lo < hi <= MaxRange
MaxRange == 2

\* the value ranges the repository's README and demo configure
RepoRanges == {<<-50, 50>>, <<-65, 55>>, <<-40, 40>>}

QuantRanges ==
  RepoRanges \cup {r \in (-MaxRange..MaxRange) \X (-MaxRange..MaxRange) : r[1] < r[2]}

\* the ranges with max = min: [m, m] for -MaxRange <= m <= MaxRange, and [7, 7]
DegenerateRanges == {<<m, m>> : m \in (-MaxRange..MaxRange) \cup {7}}

NumRange(r) == <<Num(r[1]), Num(r[2])>>

\* values inside range r: its integers, or its quarters for a generic range
\* (the one value of a range with max = min)
QuantValues(r) ==
  IF r \in RepoRanges THEN {Num(v) : v \in r[1]..r[2]}
  ELSE {Dyadic(n, 2) : n \in (4 * r[1])..(4 * r[2])}

QuantInputs ==
  UNION {
    {[call |-> "input", next |-> "quantize", arg |-> v, ret |-> None,
      range |-> NumRange(r), first |-> None] : v \in QuantValues(r)}
    \cup
    {[call |-> "input", next |-> "dequantize", arg |-> Num(b), ret |-> None,
      range |-> NumRange(r), first |-> None] : b \in 0..255}
    : r \in QuantRanges \cup DegenerateRanges}

InitQuant ==
  /\ src = NoSource
  /\ interpolationParam = InitialParam
  /\ ctx = NoCanvas
  /\ last \in QuantInputs

\* the argument of the next call: the input, or the previous call's result
NextArg == IF last.call = "input" THEN last.arg ELSE last.ret[1]

QuantizeCall ==
  /\ last.next = "quantize"
  /\ last' = [call |-> "quantize", arg |-> NextArg,
              ret |-> Some(quantize(NextArg, last.range)), range |-> last.range,
              first |-> IF last.call = "input" THEN None ELSE Some(last.arg),
              next |-> IF last.call = "input" THEN "dequantize" ELSE "done"]
  /\ UNCHANGED <<src, interpolationParam, ctx>>

DequantizeCall ==
  /\ last.next = "dequantize"
  /\ last' = [call |-> "dequantize", arg |-> NextArg,
              ret |-> Some(dequantize(NextArg, last.range)), range |-> last.range,
              first |-> IF last.call = "input" THEN None ELSE Some(last.arg),
              next |-> IF last.call = "input" THEN "quantize" ELSE "done"]
  /\ UNCHANGED <<src, interpolationParam, ctx>>

NextQuant == QuantizeCall \/ DequantizeCall

SpecQuant == InitQuant /\ [][NextQuant]_vars

\* a round trip has completed: the last call undid the call before it
RoundTripDone(fn) == last.call = fn /\ last.first # None

\* max(|min|, |max|) of the last call's range
RangeMagnitude ==
  IF NumGe(NumAbs(last.range[1]), NumAbs(last.range[2]))
  THEN NumAbs(last.range[1]) ELSE NumAbs(last.range[2])

\* the range of the calls has max > min
ProperRange == NumLt(last.range[1], last.range[2])

DegenerateDequantized ==
  /\ last.call = "dequantize"
  /\ last.first = None
  /\ last.range[1] = last.range[2]

\* C11: when max = min, dequantize(b, [min, max]) is min for every byte b of
\* 0 .. 255, never an infinity or NaN
C11_DegenerateRangeGivesMin ==
  DegenerateDequantized => last.ret = Some(last.range[1])

\* byte 255 dequantized over the range [7, 7], and 7 returned
C11_Witness ==
  /\ DegenerateDequantized
  /\ last.arg = Byte255
  /\ last.range = NumRange(<<7, 7>>)
  /\ last.ret = Some(Num(7))

\* =====================================================================
\* Specification SpecGrid: the library functions applied to one grid and
\* one point: createCheckExtentFunc, then createCoordinateCalculator, then
\* interpolateGridValue on the calculator's result
\* =====================================================================

MaxWidth == 3

MaxHeight == 2

\* how many trailing bytes the data buffer may lack
MaxMissing == 1

\* data extents [minLon, minLat, maxLon, maxLat]; the second wraps the
\* antimeridian
GridExtents ==
  {<<-180, -90, 180, 90>>, <<170, -10, -170, 10>>, <<0, 0, 4, 4>>, <<-10, -10, 10, 10>>}

NumExtent(e) == <<Num(e[1]), Num(e[2]), Num(e[3]), Num(e[4])>>

\* the byte stored at index k of a test buffer
SampleByte(k) == (37 * k + 11) % 256

SampleData(n) == [k \in 1..n |-> SampleByte(k - 1)]

Grids ==
  {[width |-> w, height |-> h, extent |-> e,
    data |-> SampleData(Max2(0, w * h - missing))] :
     w \in 1..MaxWidth, h \in 1..MaxHeight, e \in GridExtents, missing \in 0..MaxMissing}

LonSamples == {-180, -175, -170, -10, 0, 3, 5, 10, 170, 175, 180}

LatSamples == {-90, -11, -10, 0, 4, 10, 90}

\* dx / width and dy / height: the size of one grid cell
CellWidth(g) == NumDiv(ExtentDx(NumExtent(g.extent)), Num(g.width))

CellHeight(g) == NumDiv(ExtentDy(NumExtent(g.extent)), Num(g.height))

\* the points of grid g: integer coordinates, and the grid nodes
\* (minLon + c * cellWidth, minLat + m * cellHeight)
GridPoints(g) ==
  {[t |-> "int", a |-> lon, b |-> lat, lon |-> Num(lon), lat |-> Num(lat)] :
     lon \in LonSamples, lat \in LatSamples}
  \cup
  {[t |-> "node", a |-> c, b |-> m,
    lon |-> NumAdd(Num(g.extent[1]), NumMul(Num(c), CellWidth(g))),
    lat |-> NumAdd(Num(g.extent[2]), NumMul(Num(m), CellHeight(g)))] :
     c \in 0..(g.width - 1), m \in 0..g.height}

GridInputs ==
  UNION {
    {[call |-> "input", next |-> "checkExtent", grid |-> g, pt |-> p,
      inside |-> FALSE, params |-> InitialParam, out |-> "none",
      before |-> InitialParam, returned |-> "fresh", ret |-> None] :
       p \in GridPoints(g)}
    : g \in Grids}

\* a record of the caller other than the instance's, holding what an earlier
\* call for another point of another grid left in it
StaleParam ==
  [i11 |-> 5, i12 |-> 2, i21 |-> 4, i22 |-> 1, rx |-> Dyadic(1, 1), ry |-> Dyadic(3, 2)]

\* the third argument of the calculator: none, the instance's scratch record,
\* or the caller's other record
OutChoices == {"none", "instance", "other"}

\* the record passed as `out`
OutRecord(out) ==
  CASE out = "none" -> None
    [] out = "instance" -> Some(interpolationParam)
    [] out = "other" -> Some(StaleParam)

\* the calculator's return statement: `out` itself after the six writes, or
\* the object literal { i11, i12, i21, i22, rx, ry }
CalculatorReturn(out, p) == IF out # None THEN WriteOut(out[1], p) ELSE p

InitGrid ==
  /\ src = NoSource
  /\ interpolationParam = InitialParam
  /\ ctx = NoCanvas
  /\ last \in GridInputs

\* checkExtent(lon, lat)
CheckExtentCall ==
  /\ last.next = "checkExtent"
  /\ last' = [last EXCEPT
       !.call = "checkExtent", !.next = "calculator",
       !.inside = createCheckExtentFunc(NumExtent(last.grid.extent),
                                        last.pt.lon, last.pt.lat)]
  /\ UNCHANGED <<src, interpolationParam, ctx>>

\* coordinateCalculator(lon, lat) or coordinateCalculator(lon, lat, out)
CalculatorCall ==
  /\ last.next = "calculator"
  /\ \E out \in OutChoices :
       \E r \in {CalculatorReturn(OutRecord(out),
                    createCoordinateCalculator(last.grid.width, last.grid.height,
                      NumExtent(last.grid.extent), last.pt.lon, last.pt.lat))} :
           /\ interpolationParam' = IF out = "instance" THEN r ELSE interpolationParam
           /\ last' = [last EXCEPT
                !.call = "calculator", !.next = "interpolate", !.out = out,
                !.before = IF out = "other" THEN StaleParam ELSE interpolationParam,
                !.returned = IF out = "none" THEN "fresh" ELSE "out",
                !.params = r]
  /\ UNCHANGED <<src, ctx>>

\* interpolateGridValue(grid, params)
InterpolateCall ==
  /\ last.next = "interpolate"
  /\ last' = [last EXCEPT
       !.call = "interpolate", !.next = "done",
       !.ret = Some(interpolateGridValue(last.grid.data, last.params))]
  /\ UNCHANGED <<src, interpolationParam, ctx>>

NextGrid == CheckExtentCall \/ CalculatorCall \/ InterpolateCall

SpecGrid == InitGrid /\ [][NextGrid]_vars

\* ---------------------------------------------------------------------
\* C2
\* ---------------------------------------------------------------------

\* the containment the claim describes, on the integer coordinates
ExtentContains(e, lon, lat) ==
  IF e[3] >= e[1]
  THEN e[1] <= lon /\ lon <= e[3] /\ e[2] <= lat /\ lat <= e[4]
  ELSE e[2] <= lat /\ lat <= e[4] /\ (lon >= e[1] \/ lon <= e[3])

\* C2: the predicate of createCheckExtentFunc(extent) is the four-comparison
\* check when maxLon >= minLon, and for a wrapping extent it is
\* minLat <= lat <= maxLat and (lon >= minLon or lon <= maxLon); for extent
\* [170,-10,-170,10] lon = 175 and lon = -175 are inside and lon = 0 is not
C2_CheckExtentMatches ==
  last.call = "checkExtent" /\ last.pt.t = "int" =>
    /\ last.inside = ExtentContains(last.grid.extent, last.pt.a, last.pt.b)
    /\ last.grid.extent = <<170, -10, -170, 10>> /\ last.pt.b = 0 =>
         /\ last.pt.a \in {175, -175} => last.inside
         /\ last.pt.a = 0 => ~last.inside

\* the wrapping extent has answered for a longitude east of the antimeridian
C2_Witness ==
  /\ last.call = "checkExtent"
  /\ last.pt.t = "int"
  /\ last.grid.extent = <<170, -10, -170, 10>>
  /\ last.pt.a = -175
  /\ last.pt.b = 0
  /\ last.inside

\* ---------------------------------------------------------------------
\* C3
\* ---------------------------------------------------------------------

\* the buffer holds width * height bytes
WellFormed(g) == Len(g.data) = g.width * g.height

\* the byte of node (c, m): column c of row height - 1 - m, clamped
NodeByte(g, c, m) ==
  g.data[c + Max2(0, Min2(g.height - 1, g.height - 1 - m)) * g.width + 1]

\* interpolateGridValue has returned for a node of a well-formed grid
AtNode ==
  last.call = "interpolate" /\ last.pt.t = "node" /\ WellFormed(last.grid)

\* the calculator placed the node on whole cell numbers
CellsExact ==
  /\ XCell(last.grid.width, NumExtent(last.grid.extent), last.pt.lon) = Num(last.pt.a)
  /\ YCell(last.grid.height, NumExtent(last.grid.extent), last.pt.lat) = Num(last.pt.b)

Defined(g, i) == i >= 0 /\ i < Len(g.data)

AllDefined(g, p) ==
  Defined(g, p.i11) /\ Defined(g, p.i12) /\ Defined(g, p.i21) /\ Defined(g, p.i22)

\* C4: interpolateGridValue returns NaN when any of grid[i11], grid[i12],
\* grid[i21], grid[i22] is undefined, whatever its weight, and a number when
\* all four are defined
C4_MissingNeighbourGivesNaN ==
  last.call = "interpolate" =>
    (IsNaN(last.ret[1]) <=> ~AllDefined(last.grid, last.params))

\* an undefined right-hand neighbour of weight rx = 0 beside a defined one,
\* and NaN returned
C4_Witness ==
  /\ last.call = "interpolate"
  /\ IsZero(last.params.rx)
  /\ Defined(last.grid, last.params.i11)
  /\ ~Defined(last.grid, last.params.i21)
  /\ IsNaN(last.ret[1])

\* ---------------------------------------------------------------------
\* C12
\* ---------------------------------------------------------------------

ParamFields == {"i11", "i12", "i21", "i22", "rx", "ry"}

\* what a call without `out` returns for the point of the last call
FreshParams ==
  createCoordinateCalculator(last.grid.width, last.grid.height,
                             NumExtent(last.grid.extent), last.pt.lon, last.pt.lat)

\* C12: the calculator's six values depend on (lon, lat) only: whatever `out`
\* is and whatever it held, the returned record has the values a call without
\* `out` returns; a call with `out` returns that record with its six fields
\* overwritten; a call without `out` leaves the existing records as they were
C12_CalculatorResult ==
  last.call = "calculator" =>
    /\ DOMAIN last.params = ParamFields
    /\ last.params = FreshParams
    /\ last.returned = (IF last.out = "none" THEN "fresh" ELSE "out")
    /\ last.out = "instance" => interpolationParam = last.params
    /\ last.out = "none" => interpolationParam = last.before
    /\ last.out = "other" => interpolationParam = InitialParam

\* a call given a record none of whose six fields held the value the call
\* writes
C12_Witness ==
  /\ last.call = "calculator"
  /\ last.out = "other"
  /\ last.returned = "out"
  /\ \A f \in ParamFields : last.before[f] # last.params[f]
  /\ ~IsZero(last.params.rx)

\* ---------------------------------------------------------------------
\* C16
\* ---------------------------------------------------------------------

\* floor(xCell) for the point of the last call
XBase == Floor(XCell(last.grid.width, NumExtent(last.grid.extent), last.pt.lon))

\* v held to [0, width - 1]
Column(v) == Max2(0, Min2(last.grid.width - 1, v))

\* C16: the four flat indices lie in [0, width * height - 1]; the columns of
\* i11 and i12 are clamp(floor(xCell), 0, width - 1) and those of i21 and i22
\* are clamp(floor(xCell) + 1, 0, width - 1): at and beyond the last column
\* the right-hand neighbour is column width - 1, not column 0
C16_IndicesInBuffer ==
  last.call = "calculator" =>
    /\ \A f \in {"i11", "i12", "i21", "i22"} :
         last.params[f] \in 0..(last.grid.width * last.grid.height - 1)
    /\ \E xBase \in {XBase} :
         /\ last.params.i11 % last.grid.width = Column(xBase)
         /\ last.params.i12 % last.grid.width = Column(xBase)
         /\ last.params.i21 % last.grid.width = Column(xBase + 1)
         /\ last.params.i22 % last.grid.width = Column(xBase + 1)
         /\ xBase >= last.grid.width - 1 =>
              /\ last.params.i21 % last.grid.width = last.grid.width - 1
              /\ last.params.i21 = last.params.i11
              /\ last.params.i22 = last.params.i12

\* the eastern edge of the wrapping extent on a grid of several columns:
\* xCell = width, and both neighbours in the last column
C16_Witness ==
  /\ last.call = "calculator"
  /\ last.grid.extent = <<170, -10, -170, 10>>
  /\ last.pt.lon = Num(-170)
  /\ last.grid.width = 3
  /\ XBase = 3
  /\ last.params.i11 % 3 = 2
  /\ last.params.i21 % 3 = 2

\* ---------------------------------------------------------------------
\* C17
\* ---------------------------------------------------------------------

\* the calculator has been called for an integer longitude inside a wrapping
\* extent
WrappedCall ==
  /\ last.call = "calculator"
  /\ last.pt.t = "int"
  /\ last.grid.extent[3] < last.grid.extent[1]
  /\ last.inside

\* xCell of longitude lon on the grid of the last call
XCellOf(lon) == XCell(last.grid.width, NumExtent(last.grid.extent), Num(lon))

\* how far east of minLon the longitude lies, in degrees, going across the
\* antimeridian
EastOfMin(lon) ==
  IF lon >= last.grid.extent[1] THEN lon - last.grid.extent[1]
  ELSE lon + 360 - last.grid.extent[1]

\* the longitudes of the samples inside the wrapping extent
WrappedLongitudes ==
  {lon \in LonSamples : lon >= last.grid.extent[1] \/ lon <= last.grid.extent[3]}

MaxTile == 1

\* the numbers of the configured sources
Sources == 1..13

ZeroData(n) == [k \in 1..n |-> 0]

\* a tile grid of one zoom level whose tiles are 8 map units high, the top
\* edge of row 0 at y = 8
TileGridFor(tileH) ==
  [origin |-> <<Zero, Num(8)>>, resolutions |-> <<NumDiv(Num(8), Num(tileH))>>]

\* options shared by the configured sources: a 2 x 2 grid in EPSG:4326 shown
\* on a map in EPSG:4326
CommonOptions ==
  [class |-> "color", data |-> SampleData(4), extremes |-> NotGiven,
   dataWidth |-> 2, dataHeight |-> 2, dataExtent |-> NumExtent(<<4, 0, 36, 8>>),
   tileGrid |-> TileGridFor(8), projection |-> Some("EPSG:4326"),
   dataProjection |-> Some("EPSG:4326"), tileSize |-> SizeNumber(8),
   spacingFactor |-> Some(5), speedThreshold |-> None, style |-> NotGiven,
   text |-> None]

GlyphOptions ==
  [CommonOptions EXCEPT
     !.tileSize = SizeNumber(2), !.tileGrid = TileGridFor(2),
     !.spacingFactor = Some(4), !.dataExtent = NumExtent(<<4, 0, 20, 8>>),
     !.extremes = PairExtremes(Zero, Num(40))]

TileOptions(n) ==
  CASE n = 1 -> [CommonOptions EXCEPT !.extremes = PairExtremes(Num(-50), Num(50))]
    [] n = 2 -> [CommonOptions EXCEPT !.data = SampleData(3)]
    [] n = 3 -> [CommonOptions EXCEPT
                   !.tileSize = SizeOf(25, 8), !.dataExtent = NumExtent(<<0, 0, 32, 8>>)]
    [] n = 4 -> [GlyphOptions EXCEPT
                   !.class = "arrow", !.data = <<ZeroData(4), ZeroData(4)>>]
    [] n = 5 -> [GlyphOptions EXCEPT
                   !.class = "arrow", !.data = <<ZeroData(4), ZeroData(4)>>,
                   !.speedThreshold = Some(Num(5)),
                   !.style = StyleObject([EmptyArrowStyle EXCEPT !.color = Some("green")])]
    [] n = 6 -> [GlyphOptions EXCEPT
                   !.class = "arrow", !.data = <<SampleData(4), ZeroData(3)>>,
                   !.speedThreshold = Some(Num(10)),
                   !.style = StyleFunction("bySpeed")]
    [] n = 7 -> [GlyphOptions EXCEPT
                   !.class = "label", !.data = <<SampleData(4)>>,
                   !.extremes = PairExtremes(Num(-50), Num(50)),
                   !.style = StyleObject([EmptyLabelStyle EXCEPT !.stroke = Some("white")])]
    [] n = 8 -> [GlyphOptions EXCEPT
                   !.class = "label", !.data = <<SampleData(4), SampleData(3)>>,
                   !.extremes = MultiExtremes(<<<<Num(-50), Num(50)>>, <<Zero, Num(40)>>>>),
                   !.style = StyleFunction("bySign"), !.text = Some("positive")]
    [] n = 9 -> [GlyphOptions EXCEPT
                   !.class = "label", !.data = <<SampleData(3), SampleData(4)>>,
                   !.extremes = PairExtremes(Num(-50), Num(50))]
    [] n = 10 -> [GlyphOptions EXCEPT
                    !.class = "arrow", !.data = <<SampleData(4), SampleData(4)>>,
                    !.extremes = MultiExtremes(<<<<Num(-50), Num(50)>>, <<Zero, Num(40)>>>>)]
    [] n = 11 -> [GlyphOptions EXCEPT
                    !.class = "arrow", !.data = <<SampleData(4), ZeroData(4)>>,
                    !.style = StyleFunction("requery")]
    [] n = 12 -> [GlyphOptions EXCEPT
                    !.class = "label", !.data = <<SampleData(4), SampleData(4)>>,
                    !.extremes = PairExtremes(Num(-50), Num(50)),
                    !.style = StyleFunction("requery"), !.text = Some("requery")]
    [] n = 13 -> [GlyphOptions EXCEPT
                    !.class = "label", !.data = <<SampleData(4)>>,
                    !.tileGrid = [TileGridFor(2) EXCEPT
                                    !.origin = <<NumDiv(One, Num(10)), Num(8)>>]]

\* new ColorGrid(options), new ArrowGrid(options) or new LabelGrid(options)
NewSource(options) ==
  CASE options.class = "color" -> ColorGrid(options)
    [] options.class = "arrow" -> ArrowGrid(options)
    [] options.class = "label" -> LabelGrid(options)

\* the drawing context the constructor leaves: ColorGrid has none
NewSourceContext(s) ==
  CASE s.kind = "color" -> NoCanvas
    [] s.kind = "arrow" -> ArrowContext
    [] s.kind = "label" -> LabelContext(s.style)

\* the map coordinates point queries are made at
QueryCoordinates ==
  {<<Num(6), Num(6)>>, <<Num(12), Num(2)>>, <<Num(40), Num(9)>>}

TileColumns == -1..MaxTile

InitTile ==
  \E n \in Sources : \E s \in {NewSource(TileOptions(n))} :
    /\ src = s
    /\ ctx = NewSourceContext(s)
    /\ interpolationParam = InitialParam
    /\ last = [call |-> "new", source |-> n, tile |-> <<0, 0, 0>>,
               coordinate |-> <<Zero, Zero>>, dirty |-> FALSE, ret |-> None]

\* the scratch record or the drawing surface is not as the constructor left it
Dirty ==
  \/ interpolationParam # InitialParam
  \/ ctx # NewSourceContext(src)

\* the loader the constructor registers: (z, x, y) => this.loadTile(z, x, y)
ColorLoadTileCall ==
  /\ src.kind = "color"
  /\ ~Diverges(src)
  /\ \E x \in TileColumns :
       \E r \in {ColorLoadTile(src, interpolationParam, 0, x, 0)} :
           /\ interpolationParam' = r.param
           /\ last' = [last EXCEPT !.call = "loadTile", !.tile = <<0, x, 0>>,
                                   !.dirty = Dirty, !.ret = r.buffer]
  /\ UNCHANGED <<src, ctx>>

ArrowLoadTileCall ==
  /\ src.kind = "arrow"
  /\ ~Diverges(src)
  /\ \E x \in TileColumns :
       \E r \in {ArrowLoadTile(src, interpolationParam, ctx, 0, x, 0)} :
           /\ interpolationParam' = r.param
           /\ ctx' = r.ctx
           /\ last' = [last EXCEPT !.call = "loadTile", !.tile = <<0, x, 0>>,
                                   !.dirty = Dirty, !.ret = r.ret]
  /\ UNCHANGED src

LabelLoadTileCall ==
  /\ src.kind = "label"
  /\ ~Diverges(src)
  /\ \E x \in TileColumns :
       \E r \in {LabelLoadTile(src, interpolationParam, ctx, 0, x, 0)} :
           /\ interpolationParam' = r.param
           /\ ctx' = r.ctx
           /\ last' = [last EXCEPT !.call = "loadTile", !.tile = <<0, x, 0>>,
                                   !.dirty = Dirty, !.ret = r.ret]
  /\ UNCHANGED src

ColorGetDataCall ==
  /\ src.kind = "color"
  /\ \E coordinate \in QueryCoordinates :
       \E r \in {ColorGetData(src, interpolationParam, coordinate)} :
           /\ interpolationParam' = r.param
           /\ last' = [last EXCEPT !.call = "getDataAtCoordinate",
                                   !.coordinate = coordinate,
                                   !.dirty = Dirty, !.ret = r.ret]
  /\ UNCHANGED <<src, ctx>>

ArrowGetVectorCall ==
  /\ src.kind = "arrow"
  /\ \E coordinate \in QueryCoordinates :
       \E r \in {ArrowGetVector(src, interpolationParam, coordinate)} :
           /\ interpolationParam' = r.param
           /\ last' = [last EXCEPT !.call = "getVectorAtCoordinate",
                                   !.coordinate = coordinate,
                                   !.dirty = Dirty, !.ret = r.ret]
  /\ UNCHANGED <<src, ctx>>

LabelGetDataCall ==
  /\ src.kind = "label"
  /\ \E coordinate \in QueryCoordinates :
       \E r \in {LabelGetData(src, interpolationParam, coordinate)} :
           /\ interpolationParam' = r.param
           /\ last' = [last EXCEPT !.call = "getDataAtCoordinate",
                                   !.coordinate = coordinate,
                                   !.dirty = Dirty, !.ret = r.ret]
  /\ UNCHANGED <<src, ctx>>

NextTile ==
  \/ ColorLoadTileCall
  \/ ArrowLoadTileCall
  \/ LabelLoadTileCall
  \/ ColorGetDataCall
  \/ ArrowGetVectorCall
  \/ LabelGetDataCall

SpecTile == InitTile /\ [][NextTile]_vars

\* ---------------------------------------------------------------------
\* what the claims about tile renders speak of
\* ---------------------------------------------------------------------

\* the pixel origins (i, j) the stride loops of loadTile visit
SamplesOf(s) ==
  {p \in (0..(s.tileW - 1)) \X (0..(s.tileH - 1)) :
     p[1] % s.gridStepX = 0 /\ p[2] % s.gridStepY = 0}

\* the data-space point of sample (i, j) of a tile
TilePoint(s, tile, i, j) ==
  SamplePoint(s, TileBBox(s, tile[1], tile[2], tile[3]), i, j)

InExtent(s, tile, i, j) ==
  createCheckExtentFunc(s.dataExtent, TilePoint(s, tile, i, j)[1],
                        TilePoint(s, tile, i, j)[2])

\* the value a channel interpolates to at sample (i, j) of a tile
RawAt(s, grid, tile, i, j) ==
  interpolateGridValue(grid,
    createCoordinateCalculator(s.dataWidth, s.dataHeight, s.dataExtent,
                               TilePoint(s, tile, i, j)[1],
                               TilePoint(s, tile, i, j)[2]))

\* the channel buffers of a source
Channels(s) == IF s.kind = "color" THEN <<s.data>> ELSE s.data

\* sample (i, j) is outside the data extent, or a channel is missing there
Skipped(s, tile, i, j) ==
  \/ ~InExtent(s, tile, i, j)
  \/ \E k \in 1..Len(Channels(s)) : IsNaN(RawAt(s, Channels(s)[k], tile, i, j))

\* the four bytes of pixel (col, row) of a raster tile
PixelAt(buffer, s, col, row) ==
  LET idx == (row * s.tileW + col) * 4
  IN  <<buffer[idx], buffer[idx + 1], buffer[idx + 2], buffer[idx + 3]>>

\* the pixels of the tile in the gridStepX x gridStepY block of sample (i, j)
Footprint(s, i, j) ==
  {p \in (i..(i + s.gridStepX - 1)) \X (j..(j + s.gridStepY - 1)) :
     p[1] < s.tileW /\ p[2] < s.tileH}

\* a glyph or a label was drawn for sample (i, j)
DrawnAt(image, s, i, j) ==
  LET px == NumAdd(Num(i), s.halfStepX)
      py == NumAdd(Num(j), s.halfStepY)
  IN  \E k \in 1..Len(image.drawn) :
        LET d == image.drawn[k]
        IN  IF d.op = "stroke"
            THEN d.transform # <<>>
                 /\ d.transform[1] = [op |-> "translate", x |-> px, y |-> py]
            ELSE d.op \in {"fillText", "strokeText"} /\ d.x = px /\ d.y = py

\* loadTile has returned
Rendered(kind) == last.call = "loadTile" /\ src.kind = kind

\* ---------------------------------------------------------------------
\* C1
\* ---------------------------------------------------------------------

\* the tile as an instance fresh from its constructor renders it
FreshTile(s, tile) ==
  CASE s.kind = "color" ->
         ColorLoadTile(s, InitialParam, tile[1], tile[2], tile[3]).buffer
    [] s.kind = "arrow" ->
         ArrowLoadTile(s, InitialParam, NewSourceContext(s),
                       tile[1], tile[2], tile[3]).ret
    [] s.kind = "label" ->
         LabelLoadTile(s, InitialParam, NewSourceContext(s),
                       tile[1], tile[2], tile[3]).ret

\* C1: loadTile(z, x, y) returns the same pixels whatever loadTile calls and
\* point queries the instance served before: what they left in the scratch
\* record and on the drawing surface does not reach the tile
C1_TileDeterministic ==
  last.call = "loadTile" => last.ret = FreshTile(src, last.tile)

\* a glyph tile rendered on an instance whose scratch record and surface
\* earlier calls had used
C1_Witness ==
  /\ Rendered("arrow")
  /\ last.dirty
  /\ last.ret.drawn # <<>>
  /\ last.tile = <<0, 1, 0>>

\* ---------------------------------------------------------------------
\* C5
\* ---------------------------------------------------------------------

\* C5: a sample outside the data extent, or with a missing channel, leaves
\* no output: in a raster tile every pixel of its footprint is (0, 0, 0, 0),
\* in a glyph or label tile nothing is drawn for it
C5_SkippedSampleBlank ==
  last.call = "loadTile" =>
    \A p \in SamplesOf(src) :
      Skipped(src, last.tile, p[1], p[2]) =>
        IF src.kind = "color"
        THEN \A q \in Footprint(src, p[1], p[2]) :
               PixelAt(last.ret, src, q[1], q[2]) = <<0, 0, 0, 0>>
        ELSE ~DrawnAt(last.ret, src, p[1], p[2])

\* ---------------------------------------------------------------------
\* C6
\* ---------------------------------------------------------------------

\* C6: the raster tile has tileW * tileH * 4 bytes; every pixel in the
\* footprint of an emitted sample is (v, v, v, 255) with v the rounded value
\* of that sample; every pixel is (0, 0, 0, 0) or (v, v, v, 255)
C6_BlockFill ==
  Rendered("color") =>
    /\ DOMAIN last.ret = 0..(src.tileW * src.tileH * 4 - 1)
    /\ \A p \in SamplesOf(src) :
         ~Skipped(src, last.tile, p[1], p[2]) =>
           LET value == MathRound(RawAt(src, src.data, last.tile, p[1], p[2]))
           IN  \A q \in Footprint(src, p[1], p[2]) :
                 PixelAt(last.ret, src, q[1], q[2]) = <<value, value, value, 255>>
    /\ \A q \in (0..(src.tileW - 1)) \X (0..(src.tileH - 1)) :
         LET pixel == PixelAt(last.ret, src, q[1], q[2])
         IN  \/ pixel = <<0, 0, 0, 0>>
             \/ pixel[1] \in 0..255 /\ pixel = <<pixel[1], pixel[1], pixel[1], 255>>

\* ---------------------------------------------------------------------
\* C8
\* ---------------------------------------------------------------------

\* the samples of a tile that are inside the extent with both channels there
DefinedSamples(s, tile) == {p \in SamplesOf(s) : ~Skipped(s, tile, p[1], p[2])}

\* hypot(u, v) of the dequantized channels at sample (i, j)
SpeedAt(s, tile, i, j) ==
  Hypot(dequantize(RawAt(s, s.data[1], tile, i, j), ArrowRange(s.extremes)),
        dequantize(RawAt(s, s.data[2], tile, i, j), ArrowRange(s.extremes)))

\* the glyphs stroked into a tile
Strokes(image) == {k \in 1..Len(image.drawn) : image.drawn[k].op = "stroke"}

\* u = 0 and v = 0 at every defined sample of the tile
StillField(s, tile) ==
  \A p \in DefinedSamples(s, tile) : IsZero(SpeedAt(s, tile, p[1], p[2]))

\* C8: an in-extent, defined sample of a glyph tile is skipped exactly when
\* hypot(u, v) < speedThreshold; where u = v = 0 everywhere, a threshold above
\* zero skips every sample and threshold 0 strokes one glyph per sample
C8_SkippedBelowThreshold ==
  Rendered("arrow") =>
    /\ \A p \in DefinedSamples(src, last.tile) :
         ~DrawnAt(last.ret, src, p[1], p[2])
           <=> NumLt(SpeedAt(src, last.tile, p[1], p[2]), src.speedThreshold)
    /\ StillField(src, last.tile) /\ NumGt(src.speedThreshold, Zero)
         => Strokes(last.ret) = {}
    /\ StillField(src, last.tile) /\ IsZero(src.speedThreshold)
         => Cardinality(Strokes(last.ret)) = Cardinality(DefinedSamples(src, last.tile))

\* a still field rendered with threshold 0: a glyph at every sample
C8_Witness ==
  /\ Rendered("arrow")
  /\ IsZero(src.speedThreshold)
  /\ DefinedSamples(src, last.tile) # {}
  /\ StillField(src, last.tile)
  /\ Cardinality(Strokes(last.ret)) = Cardinality(DefinedSamples(src, last.tile))

\* ---------------------------------------------------------------------
\* C13
\* ---------------------------------------------------------------------

\* the raster point query has returned
RasterQueried == last.call = "getDataAtCoordinate" /\ src.kind = "color"

\* the interpolation parameters of the queried coordinate
QueryParams ==
  createCoordinateCalculator(src.dataWidth, src.dataHeight, src.dataExtent,
                             last.coordinate[1], last.coordinate[2])

\* the queried coordinate lies inside the data extent
QueryInExtent ==
  createCheckExtentFunc(src.dataExtent, last.coordinate[1], last.coordinate[2])

\* value as the raster source reports it: dequantized when extremes are set
Reported(value) ==
  IF src.extremes.t = "undefined" THEN value ELSE dequantize(value, src.extremes.v)

\* C13: ColorGrid.getDataAtCoordinate returns null exactly when one of the
\* four interpolation neighbours is undefined, and otherwise the bilinear
\* value, dequantized when extremes are configured; outside the data extent
\* over a complete buffer it returns the value of the edge-clamped cells: at
\* (40, 9), beyond the upper right corner, the byte of the corner cell
C13_RasterQuery ==
  RasterQueried =>
    /\ last.ret = None <=> ~AllDefined(src, QueryParams)
    /\ last.ret # None =>
         last.ret = Some(Reported(interpolateGridValue(src.data, QueryParams)))
    /\ ~QueryInExtent /\ Len(src.data) = src.dataWidth * src.dataHeight =>
         last.ret # None
    /\ last.coordinate = <<Num(40), Num(9)>> =>
         last.ret = Some(Reported(Num(src.data[src.dataWidth])))

\* a query outside the extent of a source with extremes, answered with the
\* dequantized byte of the corner cell
C13_Witness ==
  /\ RasterQueried
  /\ ~QueryInExtent
  /\ src.extremes.t = "pair"
  /\ last.ret = Some(dequantize(Num(src.data[src.dataWidth]), src.extremes.v))

\* ---------------------------------------------------------------------
\* C14
\* ---------------------------------------------------------------------

\* the label point query has returned
LabelQueried == last.call = "getDataAtCoordinate" /\ src.kind = "label"

\* the range the claim assigns to channel k (counted from 1): the k-th
\* configured pair, or the one shared pair
ClaimedRange(k) ==
  IF src.extremes.t = "pairs" THEN src.extremes.v[k] ELSE src.extremes.v

\* C14: LabelGrid.getDataAtCoordinate returns one entry per channel buffer,
\* in channel order: NaN where the channel's interpolation is missing, and
\* otherwise dequantize(raw_k, range_k) with range_k the k-th configured pair
\* or the single shared pair
C14_LabelQuery ==
  LabelQueried =>
    /\ DOMAIN last.ret = 1..Len(src.data)
    /\ \A k \in 1..Len(src.data) :
         \E raw \in {interpolateGridValue(src.data[k], QueryParams)} :
           IF IsNaN(raw) THEN IsNaN(last.ret[k])
           ELSE last.ret[k] = dequantize(raw, ClaimedRange(k))

\* two channels sharing one pair, the first missing at the queried point:
\* NaN in the first entry, the dequantized value in the second
C14_Witness ==
  /\ LabelQueried
  /\ src.extremes.t = "pair"
  /\ Len(src.data) = 2
  /\ Len(last.ret) = 2
  /\ IsNaN(last.ret[1])
  /\ ~IsNaN(last.ret[2])
  /\ last.ret[2] = dequantize(interpolateGridValue(src.data[2], QueryParams),
                              src.extremes.v)

\* ---------------------------------------------------------------------
\* C15
\* ---------------------------------------------------------------------

\* the range the claim assigns to the u channel (k = 1) and the v channel
\* (k = 2): the k-th pair, or the one shared pair
ClaimedVectorRange(k) ==
  IF src.extremes.t = "pairs" THEN src.extremes.v[k] ELSE src.extremes.v

\* C15: with a pair per channel u is dequantized with the first pair and v
\* with the second, with one shared pair both are dequantized with it;
\* getVectorAtCoordinate returns numbers u and v for defined neighbours, and
\* every glyph of a tile is stroked under the rotation by its angle
C15_VectorRanges ==
  /\ last.call = "getVectorAtCoordinate" /\ last.ret # None =>
       /\ last.ret[1].u.k = "num"
       /\ last.ret[1].v.k = "num"
       /\ last.ret[1].u = dequantize(interpolateGridValue(src.data[1], QueryParams),
                                     ClaimedVectorRange(1))
       /\ last.ret[1].v = dequantize(interpolateGridValue(src.data[2], QueryParams),
                                     ClaimedVectorRange(2))
  /\ Rendered("arrow") =>
       \A n \in Strokes(last.ret) :
         /\ Len(last.ret.drawn[n].transform) = 2
         /\ last.ret.drawn[n].transform[2].op = "rotate"

\* ---------------------------------------------------------------------
\* C18
\* ---------------------------------------------------------------------

\* the source's callbacks call a point query on the source itself
Reentrant(s) == s.kind # "color" /\ s.style = StyleFunction("requery")

\* the source with callbacks that return the same and query nothing
WithoutReentry(s) ==
  IF s.kind = "arrow" THEN [s EXCEPT !.style = StyleFunction("bySpeed")]
  ELSE [s EXCEPT !.style = StyleFunction("bySign"), !.textFormatter = Some("first")]

\* loadTile(0, x, 0) of the source without the re-entrant queries, from the
\* given scratch record and drawing surface
PlainLoadTile(s, param, c, x) ==
  IF s.kind = "arrow" THEN ArrowLoadTile(WithoutReentry(s), param, c, 0, x, 0)
  ELSE LabelLoadTile(WithoutReentry(s), param, c, 0, x, 0)

\* C18: every value of a sample point is read from the scratch record before
\* a callback is called for the point, so a style function or text formatter
\* that calls a point query on the rendering instance overwrites the record
\* and leaves the tile as it is without that query: the image returned and
\* the drawing surface are those of callbacks that query nothing
C18_ReentrantQueryHarmless ==
  [][(Reentrant(src) /\ last'.call = "loadTile") =>
       \E r \in {PlainLoadTile(src, interpolationParam, ctx, last'.tile[2])} :
         /\ last'.ret = r.ret
         /\ ctx' = r.ctx]_vars

\* the first tile rendered by the arrow source with the re-entrant style
\* function: glyphs are drawn and the scratch record is the one the last
\* callback's query wrote
C18_Witness ==
  /\ last.call = "loadTile"
  /\ Reentrant(src)
  /\ src.kind = "arrow"
  /\ ~last.dirty
  /\ last.tile = <<0, 0, 0>>
  /\ last.ret.drawn # <<>>
  /\ interpolationParam = ArrowGetVector(src, InitialParam, RequeryCoordinate).param
  /\ interpolationParam # PlainLoadTile(src, InitialParam, NewSourceContext(src), 0).param

\* ---------------------------------------------------------------------
\* C19
\* ---------------------------------------------------------------------

\* the save-stack and the transform of a drawing surface
Scope(c) == [stack |-> c.stack, transform |-> c.transform]

\* the loop of ArrowGrid.loadTile(0, x, 0) finds the scope of the surface c
\* at the start of every sample point
ScopedAtEverySample(s, param, c, x) ==
  Only({
    ForEachSample(s,
      LAMBDA a, i, j :
        IF a.scoped /\ Scope(a.acc.ctx) = Scope(c)
        THEN [scoped |-> TRUE, acc |-> ArrowSample(s, bbox, a.acc, i, j)]
        ELSE [scoped |-> FALSE, acc |-> a.acc],
      [scoped |-> TRUE, acc |-> ArrowStart(s, param, c)]).scoped
    : bbox \in {TileBBox(s, 0, x, 0)} })

\* atan2(-v, u) of the dequantized channels at sample (i, j)
AngleAt(s, tile, i, j) ==
  Atan2(NumNeg(ToNumber(dequantize(RawAt(s, s.data[2], tile, i, j),
                                   ArrowRange(s.extremes)))),
        dequantize(RawAt(s, s.data[1], tile, i, j), ArrowRange(s.extremes)))

\* translate(i + halfStepX, j + halfStepY) followed by rotate(angle) of the
\* sample's own angle, applied to the transform the surface c has
GlyphTransform(s, c, tile, i, j) ==
  Rotate(Translate([transform |-> c.transform],
                   NumAdd(Num(i), s.halfStepX), NumAdd(Num(j), s.halfStepY)),
         AngleAt(s, tile, i, j)).transform

\* C19: in ArrowGrid.loadTile the save-stack and the transform of the
\* surface at the start of every sample point and at return are those at
\* entry, whichever points are skipped or drawn, and every glyph is stroked
\* under translate(i + halfStepX, j + halfStepY) followed by rotate(angle) of
\* one sample point that is in the extent, defined and not below the threshold
C19_ScopedTransform ==
  [][(src.kind = "arrow" /\ last'.call = "loadTile") =>
       /\ ScopedAtEverySample(src, interpolationParam, ctx, last'.tile[2])
       /\ Scope(ctx') = Scope(ctx)
       /\ \A k \in Strokes(last'.ret) :
            \E p \in SamplesOf(src) :
              /\ ~Skipped(src, last'.tile, p[1], p[2])
              /\ ~BelowThreshold(SpeedAt(src, last'.tile, p[1], p[2]), src.speedThreshold)
              /\ last'.ret.drawn[k].transform
                   = GlyphTransform(src, ctx, last'.tile, p[1], p[2])]_vars

\* a tile of an arrow source with a sample skipped and a glyph stroked under
\* a translate and a rotate, the surface left with an empty stack and the
\* identity transform
C19_Witness ==
  /\ Rendered("arrow")
  /\ Strokes(last.ret) # {}
  /\ Cardinality(Strokes(last.ret)) < Cardinality(SamplesOf(src))
  /\ \E k \in Strokes(last.ret) :
       /\ Len(last.ret.drawn[k].transform) = 2
       /\ last.ret.drawn[k].transform[1].op = "translate"
       /\ last.ret.drawn[k].transform[2].op = "rotate"
  /\ ctx.stack = <<>>
  /\ ctx.transform = Identity

\* ---------------------------------------------------------------------
\* C20
\* ---------------------------------------------------------------------

\* tileW * res and tileH * res of the source's tile grid
TileSpan(s) ==
  <<NumMul(Num(s.tileW), s.tileGrid.resolutions[1]),
    NumMul(Num(s.tileH), s.tileGrid.resolutions[1])>>

\* [originX + tileW*res*col, originY + tileH*res*(-row-1),
\*  originX + tileW*res*(col+1), originY + tileH*res*(-row)]
ClaimedBBox(s, col, row) ==
  <<NumAdd(s.tileGrid.origin[1], NumMul(TileSpan(s)[1], Num(col))),
    NumAdd(s.tileGrid.origin[2], NumMul(TileSpan(s)[2], Num(-row - 1))),
    NumAdd(s.tileGrid.origin[1], NumMul(TileSpan(s)[1], Num(col + 1))),
    NumAdd(s.tileGrid.origin[2], NumMul(TileSpan(s)[2], Num(-row)))>>

\* the bbox is the claimed one, the tile to the east begins at its right
\* edge and the tile below ends at its bottom edge
EdgesShared(s, col, row) ==
  \E b \in {TileBBox(s, 0, col, row)} :
    /\ b = ClaimedBBox(s, col, row)
    /\ TileBBox(s, 0, col + 1, row)[1] = b[3]
    /\ TileBBox(s, 0, col + 1, row)[2] = b[2]
    /\ TileBBox(s, 0, col + 1, row)[4] = b[4]
    /\ TileBBox(s, 0, col, row + 1)[4] = b[2]
    /\ TileBBox(s, 0, col, row + 1)[1] = b[1]
    /\ TileBBox(s, 0, col, row + 1)[3] = b[3]
    /\ NumLt(b[1], b[3])
    /\ NumLt(b[2], b[4])

\* the largest magnitude among a tile-grid origin coordinate and two edges
EdgeMagnitude(o, lo, hi) ==
  LET m == IF NumGe(NumAbs(lo), NumAbs(hi)) THEN NumAbs(lo) ELSE NumAbs(hi)
  IN  IF NumGe(NumAbs(o), m) THEN NumAbs(o) ELSE m

\* a loadTile has returned
TileLoaded == last.call = "loadTile"

\* C20 as stated: the bbox of the tile is the one of the formula, it is
\* tileW*res wide and tileH*res high, and it shares its right edge with the
\* tile to the east and its bottom edge with the tile below
C20_BBoxExactSize ==
  TileLoaded =>
    \E b \in {TileBBox(src, 0, last.tile[2], last.tile[3])} :
      /\ EdgesShared(src, last.tile[2], last.tile[3])
      /\ NumSub(b[3], b[1]) = TileSpan(src)[1]
      /\ NumSub(b[4], b[2]) = TileSpan(src)[2]

\* C20: the bbox of the tile is the one of the formula, evaluated in binary64
\* in the order written; it shares its right edge with the tile to the east
\* and its bottom edge with the tile below exactly; its width and height are
\* tileW*res and tileH*res up to the rounding of the products and sums
C20_BBoxSharedEdges ==
  TileLoaded =>
    \E b \in {TileBBox(src, 0, last.tile[2], last.tile[3])} :
      /\ EdgesShared(src, last.tile[2], last.tile[3])
      /\ NumLe(NumAbs(NumSub(NumSub(b[3], b[1]), TileSpan(src)[1])),
               NumMul(EdgeMagnitude(src.tileGrid.origin[1], b[1], b[3]), Dyadic(1, 48)))
      /\ NumLe(NumAbs(NumSub(NumSub(b[4], b[2]), TileSpan(src)[2])),
               NumMul(EdgeMagnitude(src.tileGrid.origin[2], b[2], b[4]), Dyadic(1, 48)))

\* a tile of the grid whose origin is at x = 0.1: its bbox is not exactly
\* tileW*res wide
C20_Witness ==
  /\ TileLoaded
  /\ src.tileGrid.origin[1] = NumDiv(One, Num(10))
  /\ last.tile = <<0, 1, 0>>
  /\ EdgesShared(src, 1, 0)
  /\ \E b \in {TileBBox(src, 0, 1, 0)} :
       /\ NumSub(b[3], b[1]) # TileSpan(src)[1]
       /\ NumGt(NumSub(b[3], b[1]), Num(7))

\* ---------------------------------------------------------------------
\* C22
\* ---------------------------------------------------------------------

\* the samples of the tile whose block is filled
Emitted(s, tile) == {p \in SamplesOf(s) : ~Skipped(s, tile, p[1], p[2])}

\* the byte indices the fill loops of sample (i, j) write the red byte of a
\* pixel at
WrittenAt(s, i, j) ==
  {PixelIndex(s, i, j, k, l) : k \in 0..(s.gridStepY - 1), l \in 0..(s.gridStepX - 1)}

\* C22: every pixel written for the sample at (i, j) has column i + l < tileW
\* and row j + k < tileH, every written byte index is in [0, tileW*tileH*4),
\* and the pixels written for distinct samples are disjoint
C22_FillInsideFootprint ==
  Rendered("color") =>
    /\ \A p \in Emitted(src, last.tile) :
         /\ \A k \in 0..(src.gridStepY - 1), l \in 0..(src.gridStepX - 1) :
              /\ p[1] + l < src.tileW
              /\ p[2] + k < src.tileH
         /\ \A idx \in WrittenAt(src, p[1], p[2]) :
              idx >= 0 /\ idx + 3 < src.tileW * src.tileH * 4
    /\ \A p, q \in Emitted(src, last.tile) :
         p # q => WrittenAt(src, p[1], p[2]) \cap WrittenAt(src, q[1], q[2]) = {}

\* =====================================================================
\* Specification SpecNew: one constructor call on options drawn from
\* bounded sets
\* =====================================================================

\* spacing factors -1 .. MaxFactor are configured, and none at all
MaxFactor == 7

\* the tile sizes configured: none (256), a number, or [width, height]
TileSizeChoices == 1..6

TileSizeChoice(n) ==
  CASE n = 1 -> NotGiven
    [] n = 2 -> SizeNumber(2)
    [] n = 3 -> SizeNumber(4)
    [] n = 4 -> SizeNumber(8)
    [] n = 5 -> SizeNumber(16)
    [] n = 6 -> SizeOf(25, 8)

\* the value ranges configured: none, one pair, or a pair for each of two
\* channels
ExtremesChoices == 1..3

ExtremesChoice(n) ==
  CASE n = 1 -> NotGiven
    [] n = 2 -> PairExtremes(Num(-50), Num(50))
    [] n = 3 -> MultiExtremes(<<<<Num(-50), Num(50)>>, <<Zero, Num(40)>>>>)

\* the channel buffers configured: one buffer for ColorGrid, [u, v] for
\* ArrowGrid, one to three channels for LabelGrid
DataChoice(class, channels, length) ==
  CASE class = "color" -> SampleData(length)
    [] class = "arrow" -> <<SampleData(length), ZeroData(length)>>
    [] class = "label" -> [k \in 1..channels |-> SampleData(length)]

NewOptions(class, size, factor, width, height, channels, length, extremes) ==
  [CommonOptions EXCEPT
     !.class = class, !.tileSize = TileSizeChoice(size), !.spacingFactor = factor,
     !.dataWidth = width, !.dataHeight = height,
     !.data = DataChoice(class, channels, length),
     !.extremes = ExtremesChoice(extremes)]

\* no scratch record exists before the constructor ran
NoParam == [kind |-> "none"]

InitNew ==
  /\ src = NoSource
  /\ ctx = NoCanvas
  /\ interpolationParam = NoParam
  /\ \E class \in {"color", "arrow", "label"}, size \in TileSizeChoices,
        factor \in {None} \cup {Some(f) : f \in -1..MaxFactor},
        width \in {0, 2}, height \in {0, 2}, channels \in 1..3, length \in {3, 4},
        extremes \in ExtremesChoices :
       /\ class # "label" => channels = 1
       /\ last = [call |-> "input", class |-> class, size |-> size, factor |-> factor,
                  channels |-> IF class = "arrow" THEN 2 ELSE channels,
                  length |-> length, pairs |-> extremes,
                  options |-> NewOptions(class, size, factor, width, height,
                                         channels, length, extremes)]

\* new ColorGrid(options), new ArrowGrid(options) or new LabelGrid(options):
\* no path of the three constructors throws
Construct ==
  /\ last.call = "input"
  /\ \E s \in {NewSource(last.options)} :
       /\ src' = s
       /\ ctx' = NewSourceContext(s)
  /\ interpolationParam' = InitialParam
  /\ last' = [last EXCEPT !.call = "new"]

NextNew == Construct

SpecNew == InitNew /\ [][NextNew]_vars

\* ---------------------------------------------------------------------
\* C7
\* ---------------------------------------------------------------------

\* the divisor table of a renderer
TableOf(class) ==
  CASE class = "color" -> ColorDivisors
    [] class = "arrow" -> ArrowDivisors
    [] class = "label" -> LabelDivisors

\* the spacing factor a renderer takes when none is configured
DefaultFactor(class) ==
  CASE class = "color" -> 2
    [] class = "arrow" -> 3
    [] class = "label" -> 4

\* the table position the claim assigns to a spacing factor
ClaimedPosition(class, factor) ==
  LET f == IF factor = None THEN DefaultFactor(class) ELSE factor[1]
  IN  IF f < 1 THEN 1 ELSE IF f > Len(TableOf(class)) THEN Len(TableOf(class)) ELSE f

ClaimedDivisor(class, factor) == TableOf(class)[ClaimedPosition(class, factor)]

\* the sample points of one tile whose stride loops end
SampleCount(s) == LoopCount(s.tileW, s.gridStepX) * LoopCount(s.tileH, s.gridStepY)

\* instance a samples at least as many points per tile as instance b
AtLeastAsMany(a, b) ==
  \/ Diverges(a)
  \/ ~Diverges(b) /\ SampleCount(a) >= SampleCount(b)

\* the instance the same options give with spacing factor 1
WithFactorOne == NewSource([last.options EXCEPT !.spacingFactor = Some(1)])

\* the strides of the instance are those of the claimed divisor, which is an
\* element of the table
StrideFromTable ==
  LET d == ClaimedDivisor(last.class, last.factor)
  IN  /\ \E k \in 1..Len(TableOf(last.class)) : TableOf(last.class)[k] = d
      /\ src.gridStepX = GridStep(src.tileW, d)
      /\ src.gridStepY = GridStep(src.tileH, d)

Malformed ==
  \/ last.options.dataWidth = 0
  \/ last.options.dataHeight = 0
  \/ last.length # last.options.dataWidth * last.options.dataHeight
  \/ last.class # "color" /\ last.pairs = 3 /\ last.channels # 2

\* C10: constructing with dataWidth or dataHeight 0, with a buffer whose
\* length is not dataWidth * dataHeight, or with a number of extreme pairs
\* other than the number of channels raises an error and yields no instance
C10_MalformedRejected ==
  last.call = "new" /\ Malformed => src = NoSource

\* ---------------------------------------------------------------------
\* C21
\* ---------------------------------------------------------------------

\* C21: for every tile size >= 1, divisor table and spacing factor the
\* constructor derives gridStepX >= 1 and gridStepY >= 1, so the stride loops
\* of loadTile make progress and the render ends
C21_StridesPositive ==
  last.call = "new" =>
    /\ src.tileW >= 1 /\ src.tileH >= 1
    /\ src.gridStepX >= 1
    /\ src.gridStepY >= 1
    /\ ~Diverges(src)
====
